---- MODULE Spec2Model ----
(***************************************************************************)
(* Model of the nexun-backend realtime services.                           *)
(*                                                                         *)
(* Video engine: VideoController (src/unnamed/part_002, the relay          *)
(* profile, and the second class of src/unnamed/part_003, the dedup        *)
(* profile) over VideoService and the Firestore collections videoRooms     *)
(* and videoParticipants.                                                  *)
(* Chat engine: ChatController over ChatService and the Firestore          *)
(* collections rooms and messages.                                         *)
(* API gateway: the upgrade handler of the HTTP server, which chooses the  *)
(* service a WebSocket upgrade is proxied to.                              *)
(*                                                                         *)
(* Every socket handler is an async function.  A handler invocation is a   *)
(* task; each action below is the segment of a handler that runs between   *)
(* two awaits of a store call: the store call the previous segment was     *)
(* waiting for takes effect atomically and the synchronous code up to the  *)
(* next store call follows in the same step.  Awaits of socket.join and    *)
(* socket.leave (in-memory adapter) are not suspension points.  The screen *)
(* toggle is the exception: the store write and the resumption of the      *)
(* handler that emits the acknowledgement are two steps.                   *)
(***************************************************************************)
EXTENDS Integers, Sequences, FiniteSets, TLC

VARIABLES
  profile,        \* which VideoController is deployed: "relay" | "dedup"
  vRooms,         \* Firestore videoRooms: roomId -> room document
  vParts,         \* Firestore videoParticipants: <<roomId, userId>> -> document
  vMembers,       \* video socket.io adapter: set of <<roomId, socketId>>
  vConnected,     \* VideoController.connectedUsers: <<userId, roomId>> -> socketId
  vSock,          \* video sockets: socketId -> [uid: socket.user.uid, open]
  vTasks,         \* video handler invocations: task id -> task record
  vOut,           \* events delivered to each video socket, in delivery order
  recentSignals,  \* dedup profile: set of <<roomId, signalId>>
  sigSeq,         \* number of video:signal events received so far
  cRooms,         \* Firestore rooms (chat): roomId -> room document
  cMsgs,          \* Firestore messages: message id -> message document
  roomCache,      \* ChatService.roomCache: roomId -> cached room
  cMembers,       \* chat socket.io adapter: set of <<roomId, socketId>>
  cConnected,     \* ChatController.connectedUsers: userId -> set of socketIds
  cSock,          \* chat sockets: socketId -> [uid: socket.user.uid, open]
  cTasks,         \* chat handler invocations: task id -> task record
  cOut,           \* events delivered to each chat socket, in delivery order
  userRoomsCache, \* ChatService.userRoomsCache entry "public"
  faults,         \* store writes that have failed so far
  upgrades        \* gateway: the upgrade requests handled, with their targets

vars == <<profile, vRooms, vParts, vMembers, vConnected, vSock, vTasks, vOut,
          recentSignals, sigSeq, cRooms, cMsgs, roomCache, cMembers,
          cConnected, cSock, cTasks, cOut, userRoomsCache, faults, upgrades>>

videoVars == <<profile, vRooms, vParts, vMembers, vConnected, vSock, vTasks,
               vOut, recentSignals, sigSeq>>

chatVars == <<cMsgs, roomCache, cMembers, cConnected, cSock, cTasks, cOut,
              userRoomsCache, faults>>

----------------------------------------------------------------------------
(* Bounds *)

MaxVideoTasks == 2
MaxVideoRooms == 1
MaxSignals == 2
MaxChatTasks == 2
MaxChatRooms == 2
MaxFaults == 1
MaxLeaves == 1

VSockets == {"v1", "v2", "v3"}
CSockets == {"c1", "c2", "c3"}
Users == {"u1", "u2", "u3"}
NoToken == ""

\* room codes are strings of CODE_LENGTH characters; a string is modelled as
\* the sequence of its characters
CodeA == <<"A", "B", "C", "1", "2", "3">>
CodeB == <<"X", "Y", "Z", "7", "8", "9">>
CodePool == {CodeA, CodeB}
NoCode == <<>>

----------------------------------------------------------------------------
(* Generic helpers *)

Put(f, k, v) == [x \in (DOMAIN f) \cup {k} |-> IF x = k THEN v ELSE f[x]]

Drop(f, k) == [x \in (DOMAIN f) \ {k} |-> f[x]]

\* the elements of an array field of a stored document
Elems(arr) == {arr[i] : i \in 1..Len(arr)}

\* mutant: the element is appended whether or not it is present
arrayUnion_push(arr, x) == Append(arr, x)

\* FieldValue.arrayUnion: the element is appended unless it is present
arrayUnion(arr, x) == IF x \in Elems(arr) THEN arr ELSE Append(arr, x)

\* socket.emit / io.to(...).emit: append the event to every recipient's stream
Emit(out, recipients, e) ==
  [s \in DOMAIN out |-> IF s \in recipients THEN Append(out[s], e) ELSE out[s]]

\* an event as a client sees it: its name, roomId, userId, the error code (or
\* socketId of video:user:joined), the forwarded signal and the participant list
VEvent(name, roomId, userId, code) ==
  [ev |-> name, roomId |-> roomId, userId |-> userId, code |-> code,
   sig |-> [seq |-> 0, data |-> [present |-> FALSE, type |-> "<absent>",
                                 sdp |-> "<absent>", candidate |-> "<absent>"],
            type |-> "", streamType |-> "<absent>", target |-> ""],
   users |-> {}, enabled |-> FALSE]

SignalEvent(roomId, userId, fwd) ==
  [VEvent("video:signal", roomId, userId, "") EXCEPT !.sig = fwd]

JoinedEvent(roomId, userId, users) ==
  [VEvent("video:room:joined", roomId, userId, "") EXCEPT !.users = users]

----------------------------------------------------------------------------
(* Video store: VideoService *)

NoVideoRoom ==
  [found |-> FALSE, id |-> "", hostId |-> "", participants |-> {},
   maxParticipants |-> 0, code |-> NoCode, chatRoomId |-> "", updatedAt |-> 0]

VideoRoomId(n) == IF n = 1 THEN "vr1" ELSE IF n = 2 THEN "vr2" ELSE "vr3"

ChatRoomId(n) == IF n = 1 THEN "cr1" ELSE IF n = 2 THEN "cr2"
                 ELSE IF n = 3 THEN "cr3" ELSE "cr4"

\* VideoService.getRoom
getRoom(roomId) ==
  IF roomId \in DOMAIN vRooms THEN vRooms[roomId] ELSE NoVideoRoom

\* VideoService.getRoomByCode: where("code","==",code).limit(1); with several
\* matching documents the store returns any one of them
getRoomByCode(code) ==
  LET hits == {r \in DOMAIN vRooms : vRooms[r].code = code}
  IN IF hits = {} THEN {NoVideoRoom} ELSE {vRooms[r] : r \in hits}

\* VideoService.getParticipant
NoParticipant ==
  [found |-> FALSE, userId |-> "", socketId |-> "", isAudioEnabled |-> TRUE,
   isVideoEnabled |-> TRUE, isScreenSharing |-> FALSE]

getParticipant(roomId, userId) ==
  IF <<roomId, userId>> \in DOMAIN vParts
  THEN vParts[<<roomId, userId>>] ELSE NoParticipant

\* a listing that returns the record of the host alone
getRoomParticipants_host(roomId) ==
  {vParts[k] : k \in {x \in DOMAIN vParts :
                        x[1] = roomId /\ x[2] = getRoom(roomId).hostId}}

\* VideoService.getRoomParticipants
getRoomParticipants(roomId) ==
  {vParts[k] : k \in {x \in DOMAIN vParts : x[1] = roomId}}

\* a removal that adds the element when it is absent
arrayRemove_toggle(set, x) == IF x \in set THEN set \ {x} ELSE set \cup {x}

\* FieldValue.arrayRemove on the participants of a video room
arrayRemove(set, x) == set \ {x}

\* room.maxParticipants || dflt
OrDefault(n, dflt) == IF n = 0 THEN dflt ELSE n

\* the default the controller uses in "room.maxParticipants || N"
JoinDefaultMax == IF profile = "relay" THEN 8 ELSE 10

----------------------------------------------------------------------------
(* Video tasks *)

Absent == "<absent>"

\* signal payloads (the "data" member of a video:signal event)
NoData == [present |-> FALSE, type |-> Absent, sdp |-> Absent, candidate |-> Absent]
OfferA == [present |-> TRUE, type |-> "offer", sdp |-> "sdpA", candidate |-> Absent]
OfferB == [present |-> TRUE, type |-> "offer", sdp |-> "sdpB", candidate |-> Absent]
OfferEmpty == [present |-> TRUE, type |-> "offer", sdp |-> "", candidate |-> Absent]
CandA == [present |-> TRUE, type |-> Absent, sdp |-> Absent, candidate |-> "candA"]

VTask0 ==
  [kind |-> "", sock |-> "", uid |-> "", pc |-> "", roomId |-> "",
   code |-> NoCode, target |-> "", sigType |-> "", sigData |-> NoData,
   meta |-> FALSE, enabled |-> FALSE,
   seq |-> 0, snap |-> NoVideoRoom, todo |-> {}, chatParts |-> <<>>,
   screen |-> FALSE, newChatId |-> "", chatId |-> "", res |-> ""]

VLive == {t \in DOMAIN vTasks : vTasks[t].pc # "done"}

VNewTask == Cardinality(DOMAIN vTasks) + 1

VCanStart == Cardinality(DOMAIN vTasks) < MaxVideoTasks

VFinish(t, res) == [vTasks[t] EXCEPT !.pc = "done", !.res = res,
                                      !.snap = NoVideoRoom, !.todo = {},
                                      !.chatParts = <<>>]

VOpen == {s \in DOMAIN vSock : vSock[s].open}

\* the sockets an emit to a room reaches (the adapter skips closed sockets)
VSocketsIn(roomId) == {s \in VOpen : <<roomId, s>> \in vMembers}

\* socket.emit: a packet for a closed socket is discarded
ToSocket(s) == IF s \in VOpen THEN {s} ELSE {}

----------------------------------------------------------------------------
(* Handshake: socketAuthMiddleware, then VideoController.handleConnection *)

\* auth.verifyIdToken accepts exactly the tokens of the known users; a token
\* is modelled by the uid it was minted for
socketAuthMiddleware(token) ==
  IF token = NoToken THEN [ok |-> FALSE, uid |-> "", code |-> "AUTH_REQUIRED"]
  ELSE IF token \in Users THEN [ok |-> TRUE, uid |-> token, code |-> ""]
  ELSE [ok |-> FALSE, uid |-> "", code |-> "AUTH_FAILED"]

\* a handshake that reads the query before the auth payload
HandshakeToken_query(authToken, queryToken) ==
  IF queryToken # NoToken THEN queryToken ELSE authToken

\* socket.handshake.auth?.token || socket.handshake.query?.token
HandshakeToken(authToken, queryToken) ==
  IF authToken # NoToken THEN authToken ELSE queryToken

\* the client of a refused handshake has received connect_error
Refused(out, s) == \E i \in 1..Len(out[s]) : out[s][i].ev = "connect_error"

\* handleConnection: if (!socket.user) socket.user = {uid: `anonymous_${socket.id}`,
\* name: `Guest ${socket.id.substring(0, 8)}`}; the pair stands for the string
ConnectionUser(s, uid) == IF uid = "" THEN <<"anonymous_", s>> ELSE uid

\* io.use(socketAuthMiddleware): next(error) refuses the handshake and the
\* client receives connect_error with error.data; after next() the server
\* emits "connection" and VideoController.handleConnection runs
handleConnection_v(s, token) ==
  /\ s \notin DOMAIN vSock /\ ~Refused(vOut, s)
  /\ IF socketAuthMiddleware(token).ok
     THEN /\ vSock' = Put(vSock, s,
                          [uid |-> ConnectionUser(s, socketAuthMiddleware(token).uid),
                           open |-> TRUE])
          /\ UNCHANGED vOut
     ELSE /\ vOut' = Emit(vOut, {s}, VEvent("connect_error", "", "",
                                            socketAuthMiddleware(token).code))
          /\ UNCHANGED vSock
  /\ UNCHANGED <<profile, vRooms, vParts, vMembers, vConnected, vTasks,
                 recentSignals, sigSeq, cRooms>>
  /\ UNCHANGED <<chatVars, upgrades>>

----------------------------------------------------------------------------
(* video:room:create: VideoController.handleCreateRoom, VideoService.createRoom *)

NoChatRoom ==
  [found |-> FALSE, id |-> "", visibility |-> "", code |-> NoCode,
   participants |-> <<>>, createdBy |-> "", videoRoomId |-> ""]

\* number of chat room ids handed out so far by firestore.collection("rooms").doc()
ChatIdsIssued ==
  Cardinality({t \in DOMAIN vTasks : vTasks[t].newChatId # ""})
  + Cardinality({t \in DOMAIN cTasks : cTasks[t].newId # ""})

VideoIdsIssued == Cardinality({t \in DOMAIN vTasks : vTasks[t].kind = "create"})

\* the maxParticipants the controller hands to VideoService.createRoom
CreateMax(requested) == IF profile = "relay" THEN 8 ELSE requested

\* the room document VideoService.createRoom builds; updatedAt counts the
\* writes of FieldValue.serverTimestamp() to the document since its creation
NewVideoRoom(id, hostId, maxP, code, chatRoomId) ==
  [found |-> TRUE, id |-> id, hostId |-> hostId, participants |-> {hostId},
   maxParticipants |-> OrDefault(maxP, 10), code |-> code,
   chatRoomId |-> chatRoomId, updatedAt |-> 0]

\* the chat room document VideoService.createRoom builds for createChat
LinkedChatRoom(id, hostId, code, videoRoomId) ==
  [found |-> TRUE, id |-> id, visibility |-> "private", code |-> code,
   participants |-> <<hostId>>, createdBy |-> hostId,
   videoRoomId |-> videoRoomId]

\* handler entry up to the first store write of VideoService.createRoom
handleCreateRoom_v(s, requestedMax, createChat, roomCode, chatCode) ==
  /\ s \in VOpen
  /\ VCanStart
  /\ VideoIdsIssued < MaxVideoRooms
  /\ createChat => ChatIdsIssued < MaxChatRooms
  /\ LET rid == VideoRoomId(VideoIdsIssued + 1)
         cid == IF createChat THEN ChatRoomId(ChatIdsIssued + 1) ELSE ""
         room == NewVideoRoom(rid, vSock[s].uid, CreateMax(requestedMax),
                              roomCode, cid)
     IN vTasks' = Put(vTasks, VNewTask,
                      [VTask0 EXCEPT !.kind = "create", !.sock = s,
                                     !.uid = vSock[s].uid, !.roomId = rid,
                                     !.snap = room,
                                     !.code = IF createChat THEN chatCode ELSE NoCode,
                                     !.newChatId = cid,
                                     !.pc = IF createChat THEN "cr_chatset"
                                            ELSE "cr_roomset"])
  /\ UNCHANGED <<profile, vRooms, vParts, vMembers, vConnected, vSock, vOut,
                 recentSignals, sigSeq, cRooms>>
  /\ UNCHANGED <<chatVars, upgrades>>

\* await chatRoomIdDoc.set(chatRoom)
createRoom_chatSet(t) ==
  /\ t \in VLive /\ vTasks[t].pc = "cr_chatset"
  /\ cRooms' = Put(cRooms, vTasks[t].snap.chatRoomId,
                   LinkedChatRoom(vTasks[t].snap.chatRoomId, vTasks[t].uid,
                                  vTasks[t].code, vTasks[t].roomId))
  /\ vTasks' = [vTasks EXCEPT ![t].pc = "cr_roomset"]
  /\ UNCHANGED <<profile, vRooms, vParts, vMembers, vConnected, vSock, vOut,
                 recentSignals, sigSeq>>
  /\ UNCHANGED <<chatVars, upgrades>>

\* await ...doc(roomId).set(roomToSave); back in the handler:
\* connectedUsers.set, socket.join(room.id), then addParticipant is called
createRoom_roomSet(t) ==
  /\ t \in VLive /\ vTasks[t].pc = "cr_roomset"
  /\ vRooms' = Put(vRooms, vTasks[t].roomId, vTasks[t].snap)
  /\ vConnected' = Put(vConnected, <<vTasks[t].uid, vTasks[t].roomId>>,
                       vTasks[t].sock)
  /\ vMembers' = vMembers \cup {<<vTasks[t].roomId, vTasks[t].sock>>}
  /\ vTasks' = [vTasks EXCEPT ![t].pc = "ap_getRoom"]
  /\ UNCHANGED <<profile, vParts, vSock, vOut, recentSignals, sigSeq, cRooms>>
  /\ UNCHANGED <<chatVars, upgrades>>

----------------------------------------------------------------------------
(* video:room:join: VideoController.handleJoinRoom *)

\* handler entry: resolve the room by code, else by id; ROOM_NOT_FOUND and
\* ROOM_FULL checks; connectedUsers.set and socket.join; addParticipant is called
handleJoinRoom_v(s, roomId, code) ==
  /\ s \in VOpen
  /\ VCanStart
  /\ \E room \in (IF code # NoCode THEN getRoomByCode(code)
                  ELSE IF roomId # "" THEN {getRoom(roomId)}
                  ELSE {NoVideoRoom}) :
       LET uid == vSock[s].uid
           task == [VTask0 EXCEPT !.kind = "join", !.sock = s, !.uid = uid,
                                  !.roomId = room.id, !.code = code]
       IN IF ~room.found
          THEN /\ vTasks' = Put(vTasks, VNewTask,
                                [task EXCEPT !.pc = "done", !.roomId = roomId,
                                             !.res = "ROOM_NOT_FOUND"])
               /\ vOut' = Emit(vOut, ToSocket(s),
                               VEvent("error", roomId, uid, "ROOM_NOT_FOUND"))
               /\ UNCHANGED <<vConnected, vMembers>>
          ELSE IF Cardinality(room.participants)
                    >= OrDefault(room.maxParticipants, JoinDefaultMax)
          THEN /\ vTasks' = Put(vTasks, VNewTask,
                                [task EXCEPT !.pc = "done", !.res = "ROOM_FULL"])
               /\ vOut' = Emit(vOut, ToSocket(s),
                               VEvent("error", room.id, uid, "ROOM_FULL"))
               /\ UNCHANGED <<vConnected, vMembers>>
          ELSE /\ vTasks' = Put(vTasks, VNewTask,
                                [task EXCEPT !.pc = "ap_getRoom"])
               /\ vConnected' = Put(vConnected, <<uid, room.id>>, s)
               /\ vMembers' = vMembers \cup {<<room.id, s>>}
               /\ UNCHANGED vOut
  /\ UNCHANGED <<profile, vRooms, vParts, vSock, recentSignals, sigSeq, cRooms>>
  /\ UNCHANGED <<chatVars, upgrades>>

\* the catch block of the handler that called addParticipant
AddParticipantError(t) ==
  IF vTasks[t].kind = "create" THEN "CREATE_ROOM_ERROR" ELSE "JOIN_ROOM_ERROR"

\* VideoService.addParticipant: const room = await this.getRoom(roomId), the
\* not-found and room-full checks, and the includes test that selects the update
addParticipant_getRoom(t) ==
  /\ t \in VLive /\ vTasks[t].pc = "ap_getRoom"
  /\ LET room == getRoom(vTasks[t].roomId)
     IN IF \/ ~room.found
           \/ Cardinality(room.participants) >= OrDefault(room.maxParticipants, 10)
        THEN /\ vTasks' = [vTasks EXCEPT ![t] = VFinish(t, AddParticipantError(t))]
             /\ vOut' = Emit(vOut, ToSocket(vTasks[t].sock),
                             VEvent("error", vTasks[t].roomId, vTasks[t].uid,
                                    AddParticipantError(t)))
        ELSE /\ vTasks' = [vTasks EXCEPT ![t].pc =
                              IF vTasks[t].uid \in room.participants
                              THEN "ap_set" ELSE "ap_update"]
             /\ UNCHANGED vOut
  /\ UNCHANGED <<profile, vRooms, vParts, vMembers, vConnected, vSock,
                 recentSignals, sigSeq, cRooms>>
  /\ UNCHANGED <<chatVars, upgrades>>

\* await roomRef.update({participants: arrayUnion(userId)})
addParticipant_update(t) ==
  /\ t \in VLive /\ vTasks[t].pc = "ap_update"
  /\ vTasks[t].roomId \in DOMAIN vRooms
  /\ vRooms' = [vRooms EXCEPT ![vTasks[t].roomId].participants =
                                 @ \cup {vTasks[t].uid},
                               ![vTasks[t].roomId].updatedAt = @ + 1]
  /\ vTasks' = [vTasks EXCEPT ![t].pc = "ap_set"]
  /\ UNCHANGED <<profile, vParts, vMembers, vConnected, vSock, vOut,
                 recentSignals, sigSeq, cRooms>>
  /\ UNCHANGED <<chatVars, upgrades>>

\* addParticipant: the awaited roomRef.update or participant set rejects (the
\* store is unavailable); the catch rethrows, and the catch of the handler
\* emits error; the handler has called socket.join and connectedUsers.set
addParticipant_rejects(t) ==
  /\ t \in VLive /\ vTasks[t].pc \in {"ap_update", "ap_set"}
  /\ faults < MaxFaults
  /\ faults' = faults + 1
  /\ vTasks' = [vTasks EXCEPT ![t] = VFinish(t, AddParticipantError(t))]
  /\ vOut' = Emit(vOut, ToSocket(vTasks[t].sock),
                  VEvent("error", vTasks[t].roomId, vTasks[t].uid,
                         AddParticipantError(t)))
  /\ UNCHANGED <<profile, vRooms, vParts, vMembers, vConnected, vSock,
                 recentSignals, sigSeq, cRooms>>
  /\ UNCHANGED <<cMsgs, roomCache, cMembers, cConnected, cSock, cTasks, cOut,
                 userRoomsCache, upgrades>>

\* the document addParticipant writes to videoParticipants
NewParticipant(userId, socketId) ==
  [found |-> TRUE, userId |-> userId, socketId |-> socketId,
   isAudioEnabled |-> TRUE, isVideoEnabled |-> TRUE, isScreenSharing |-> FALSE]

\* await ...doc(`${roomId}_${userId}`).set({...}); back in the handler:
\*   create: socket.emit("video:room:created")
\*   join, relay profile: addUserToChatRoom is called
\*   join, dedup profile: socket.to(room).emit("video:user:joined"), then
\*                        getRoomParticipants is called
addParticipant_set(t) ==
  /\ t \in VLive /\ vTasks[t].pc = "ap_set"
  /\ vParts' = Put(vParts, <<vTasks[t].roomId, vTasks[t].uid>>,
                   NewParticipant(vTasks[t].uid, vTasks[t].sock))
  /\ IF vTasks[t].kind = "create"
     THEN /\ vTasks' = [vTasks EXCEPT ![t] = VFinish(t, "video:room:created")]
          /\ vOut' = Emit(vOut, ToSocket(vTasks[t].sock),
                          VEvent("video:room:created", vTasks[t].roomId,
                                 vTasks[t].uid, ""))
     ELSE IF profile = "relay"
     THEN /\ vTasks' = [vTasks EXCEPT ![t].pc = "chat_getRoom"]
          /\ UNCHANGED vOut
     ELSE /\ vTasks' = [vTasks EXCEPT ![t].pc = "participants"]
          /\ vOut' = Emit(vOut, VSocketsIn(vTasks[t].roomId) \ {vTasks[t].sock},
                          VEvent("video:user:joined", vTasks[t].roomId,
                                 vTasks[t].uid, vTasks[t].sock))
  /\ UNCHANGED <<profile, vRooms, vMembers, vConnected, vSock,
                 recentSignals, sigSeq, cRooms>>
  /\ UNCHANGED <<chatVars, upgrades>>

\* addUserToChatRoom: const room = await VideoService.getRoom(roomId);
\* if (!room?.chatRoomId) return
addUserToChatRoom_getRoom(t) ==
  /\ t \in VLive /\ vTasks[t].pc = "chat_getRoom"
  /\ LET room == getRoom(vTasks[t].roomId)
     IN vTasks' = [vTasks EXCEPT ![t].pc = IF room.found /\ room.chatRoomId # ""
                                           THEN "chat_get" ELSE "participants",
                                 ![t].chatId = room.chatRoomId]
  /\ UNCHANGED <<profile, vRooms, vParts, vMembers, vConnected, vSock, vOut,
                 recentSignals, sigSeq, cRooms>>
  /\ UNCHANGED <<chatVars, upgrades>>

\* addUserToChatRoom: const chatRoomDoc = await chatRoomRef.get(); the exists
\* and includes tests
addUserToChatRoom_get(t) ==
  /\ t \in VLive /\ vTasks[t].pc = "chat_get"
  /\ LET cid == vTasks[t].chatId
     IN IF cid \in DOMAIN cRooms /\ vTasks[t].uid \notin Elems(cRooms[cid].participants)
        THEN vTasks' = [vTasks EXCEPT ![t].pc = "chat_update",
                                      ![t].chatParts = cRooms[cid].participants]
        ELSE vTasks' = [vTasks EXCEPT ![t].pc = "participants"]
  /\ UNCHANGED <<profile, vRooms, vParts, vMembers, vConnected, vSock, vOut,
                 recentSignals, sigSeq, cRooms>>
  /\ UNCHANGED <<chatVars, upgrades>>

\* addUserToChatRoom: await chatRoomRef.update({participants: [...participants, userId]})
addUserToChatRoom_update(t) ==
  /\ t \in VLive /\ vTasks[t].pc = "chat_update"
  /\ vTasks[t].chatId \in DOMAIN cRooms
  /\ cRooms' = [cRooms EXCEPT ![vTasks[t].chatId].participants =
                                 Append(vTasks[t].chatParts, vTasks[t].uid)]
  /\ vTasks' = [vTasks EXCEPT ![t].pc = "participants", ![t].chatParts = <<>>]
  /\ UNCHANGED <<profile, vRooms, vParts, vMembers, vConnected, vSock, vOut,
                 recentSignals, sigSeq>>
  /\ UNCHANGED <<chatVars, upgrades>>

\* const participants = await VideoService.getRoomParticipants(roomId); then
\* (relay profile) socket.to(room).emit("video:user:joined") and, in both
\* profiles, socket.emit("video:room:joined", {room, participants})
handleJoinRoom_joined(t) ==
  /\ t \in VLive /\ vTasks[t].pc = "participants"
  /\ LET rid == vTasks[t].roomId
         s == vTasks[t].sock
         listed == {p.userId : p \in getRoomParticipants(rid)}
         out1 == IF profile = "relay"
                 THEN Emit(vOut, VSocketsIn(rid) \ {s},
                           VEvent("video:user:joined", rid, vTasks[t].uid, s))
                 ELSE vOut
     IN vOut' = Emit(out1, ToSocket(s),
                     JoinedEvent(rid, vTasks[t].uid, listed))
  /\ vTasks' = [vTasks EXCEPT ![t] = VFinish(t, "video:room:joined")]
  /\ UNCHANGED <<profile, vRooms, vParts, vMembers, vConnected, vSock,
                 recentSignals, sigSeq, cRooms>>
  /\ UNCHANGED <<chatVars, upgrades>>

----------------------------------------------------------------------------
(* video:room:leave and disconnect: handleLeaveRoom, leaveRoom, handleDisconnection *)

\* handler entry: socket.leave(roomId); leaveRoom is called, which calls
\* VideoService.removeParticipant
handleLeaveRoom_v(s, roomId) ==
  /\ s \in VOpen
  /\ VCanStart
  /\ roomId # ""
  /\ vMembers' = vMembers \ {<<roomId, s>>}
  /\ vTasks' = Put(vTasks, VNewTask,
                   [VTask0 EXCEPT !.kind = "leave", !.sock = s,
                                  !.uid = vSock[s].uid, !.roomId = roomId,
                                  !.pc = "rp_update"])
  /\ UNCHANGED <<profile, vRooms, vParts, vConnected, vSock, vOut,
                 recentSignals, sigSeq, cRooms>>
  /\ UNCHANGED <<chatVars, upgrades>>

\* the catch block around leaveRoom: handleLeaveRoom reports the error, the
\* leaveRoom calls of handleDisconnection are not awaited and report nothing
LeaveFailed(t) ==
  /\ vTasks' = [vTasks EXCEPT ![t] = VFinish(t, "LEAVE_ROOM_ERROR")]
  /\ vOut' = IF vTasks[t].kind = "leave"
             THEN Emit(vOut, ToSocket(vTasks[t].sock),
                       VEvent("error", vTasks[t].roomId, vTasks[t].uid,
                              "LEAVE_ROOM_ERROR"))
             ELSE vOut

\* removeParticipant: await roomRef.update({participants: arrayRemove(userId)});
\* update() of a document that does not exist rejects
removeParticipant_update(t) ==
  /\ t \in VLive /\ vTasks[t].pc = "rp_update"
  /\ IF vTasks[t].roomId \in DOMAIN vRooms
     THEN /\ vRooms' = [vRooms EXCEPT ![vTasks[t].roomId].participants =
                                         arrayRemove(@, vTasks[t].uid),
                                       ![vTasks[t].roomId].updatedAt = @ + 1]
          /\ vTasks' = [vTasks EXCEPT ![t].pc = "rp_delete"]
          /\ UNCHANGED vOut
     ELSE /\ LeaveFailed(t)
          /\ UNCHANGED vRooms
  /\ UNCHANGED <<profile, vParts, vMembers, vConnected, vSock,
                 recentSignals, sigSeq, cRooms>>
  /\ UNCHANGED <<chatVars, upgrades>>

\* removeParticipant: the awaited roomRef.update or participant delete rejects
\* (the store is unavailable); the catch rethrows to leaveRoom
removeParticipant_rejects(t) ==
  /\ t \in VLive /\ vTasks[t].pc \in {"rp_update", "rp_delete"}
  /\ faults < MaxFaults
  /\ faults' = faults + 1
  /\ LeaveFailed(t)
  /\ UNCHANGED <<profile, vRooms, vParts, vMembers, vConnected, vSock,
                 recentSignals, sigSeq, cRooms>>
  /\ UNCHANGED <<cMsgs, roomCache, cMembers, cConnected, cSock, cTasks, cOut,
                 userRoomsCache, upgrades>>

\* removeParticipant: await ...doc(`${roomId}_${userId}`).delete(); back in
\* leaveRoom: userRooms.delete(roomId), io.to(roomId).emit("video:user:left");
\* back in handleLeaveRoom: socket.emit("video:room:left")
removeParticipant_delete(t) ==
  /\ t \in VLive /\ vTasks[t].pc = "rp_delete"
  /\ LET rid == vTasks[t].roomId
         out1 == Emit(vOut, VSocketsIn(rid),
                      VEvent("video:user:left", rid, vTasks[t].uid, ""))
     IN /\ vParts' = Drop(vParts, <<rid, vTasks[t].uid>>)
        /\ vConnected' = Drop(vConnected, <<vTasks[t].uid, rid>>)
        /\ vOut' = IF vTasks[t].kind = "leave"
                   THEN Emit(out1, ToSocket(vTasks[t].sock),
                             VEvent("video:room:left", rid, vTasks[t].uid, ""))
                   ELSE out1
  /\ vTasks' = [vTasks EXCEPT ![t] = VFinish(t, "left")]
  /\ UNCHANGED <<profile, vRooms, vMembers, vSock, recentSignals, sigSeq, cRooms>>
  /\ UNCHANGED <<chatVars, upgrades>>

\* a disconnect that finds no room to leave
UserRooms_none(uid) == {}

\* the rooms connectedUsers holds for a user
UserRooms(uid) == {k[2] : k \in {x \in DOMAIN vConnected : x[1] = uid}}

\* a bijection from a finite set of room ids to the task ids n+1 .. n+|S|
RECURSIVE Spawn(_, _, _, _)
Spawn(tasks, rooms, uid, s) ==
  IF rooms = {} THEN tasks
  ELSE LET r == CHOOSE x \in rooms : TRUE
       IN Spawn(Put(tasks, Cardinality(DOMAIN tasks) + 1,
                    [VTask0 EXCEPT !.kind = "dropped", !.sock = s, !.uid = uid,
                                   !.roomId = r, !.pc = "rp_update"]),
                rooms \ {r}, uid, s)

\* the socket closes (socket.io takes it out of every room), then
\* handleDisconnection: one un-awaited leaveRoom per room of the user, and
\* connectedUsers.delete(uid)
handleDisconnection_v(s) ==
  /\ s \in VOpen
  /\ LET uid == vSock[s].uid
     IN /\ Cardinality(DOMAIN vTasks) + Cardinality(UserRooms(uid)) <= MaxVideoTasks
        /\ vTasks' = Spawn(vTasks, UserRooms(uid), uid, s)
        /\ vConnected' = [k \in {x \in DOMAIN vConnected : x[1] # uid}
                            |-> vConnected[k]]
  /\ vSock' = [vSock EXCEPT ![s].open = FALSE]
  /\ vMembers' = {m \in vMembers : m[2] # s}
  /\ UNCHANGED <<profile, vRooms, vParts, vOut, recentSignals, sigSeq, cRooms>>
  /\ UNCHANGED <<chatVars, upgrades>>

----------------------------------------------------------------------------
(* video:room:end: VideoController.handleEndRoom, VideoService.endRoom *)

\* handler entry.  Relay profile (part_002): the handler reads the room and
\* answers UNAUTHORIZED unless the caller is its host.  Dedup profile
\* (part_003): the handler calls VideoService.endRoom at once.
handleEndRoom_v(s, roomId) ==
  /\ s \in VOpen
  /\ VCanStart
  /\ LET uid == vSock[s].uid
         room == getRoom(roomId)
         task == [VTask0 EXCEPT !.kind = "end", !.sock = s, !.uid = uid,
                                !.roomId = roomId]
     IN IF profile = "relay" /\ (~room.found \/ room.hostId # uid)
        THEN /\ vTasks' = Put(vTasks, VNewTask,
                              [task EXCEPT !.pc = "done", !.res = "UNAUTHORIZED"])
             /\ vOut' = Emit(vOut, ToSocket(s),
                             VEvent("error", roomId, uid, "UNAUTHORIZED"))
        ELSE /\ vTasks' = Put(vTasks, VNewTask, [task EXCEPT !.pc = "er_getRoom"])
             /\ UNCHANGED vOut
  /\ UNCHANGED <<profile, vRooms, vParts, vMembers, vConnected, vSock,
                 recentSignals, sigSeq, cRooms>>
  /\ UNCHANGED <<chatVars, upgrades>>

\* endRoom: const room = await this.getRoom(roomId);
\* if (!room || room.hostId !== hostId) throw -> catch -> END_ROOM_ERROR
endRoom_getRoom(t) ==
  /\ t \in VLive /\ vTasks[t].pc = "er_getRoom"
  /\ LET room == getRoom(vTasks[t].roomId)
     IN IF ~room.found \/ room.hostId # vTasks[t].uid
        THEN /\ vTasks' = [vTasks EXCEPT ![t] = VFinish(t, "END_ROOM_ERROR")]
             /\ vOut' = Emit(vOut, ToSocket(vTasks[t].sock),
                             VEvent("error", vTasks[t].roomId, vTasks[t].uid,
                                    "END_ROOM_ERROR"))
        ELSE /\ vTasks' = [vTasks EXCEPT ![t].pc = "er_list"]
             /\ UNCHANGED vOut
  /\ UNCHANGED <<profile, vRooms, vParts, vMembers, vConnected, vSock,
                 recentSignals, sigSeq, cRooms>>
  /\ UNCHANGED <<chatVars, upgrades>>

\* endRoom: const participants = await this.getRoomParticipants(roomId)
endRoom_list(t) ==
  /\ t \in VLive /\ vTasks[t].pc = "er_list"
  /\ vTasks' = [vTasks EXCEPT
                  ![t].todo = {p.userId : p \in getRoomParticipants(vTasks[t].roomId)},
                  ![t].pc = "er_loop"]
  /\ UNCHANGED <<profile, vRooms, vParts, vMembers, vConnected, vSock, vOut,
                 recentSignals, sigSeq, cRooms>>
  /\ UNCHANGED <<chatVars, upgrades>>

\* endRoom: one turn of "for (const participant of participants)
\* await this.removeParticipant(roomId, participant.userId)": the arrayRemove
\* update and the delete of the participant document
endRoom_remove(t) ==
  /\ t \in VLive /\ vTasks[t].pc = "er_loop" /\ vTasks[t].todo # {}
  /\ \E u \in vTasks[t].todo :
       /\ vRooms' = [vRooms EXCEPT ![vTasks[t].roomId].participants =
                                      arrayRemove(@, u),
                                    ![vTasks[t].roomId].updatedAt = @ + 1]
       /\ vParts' = Drop(vParts, <<vTasks[t].roomId, u>>)
       /\ vTasks' = [vTasks EXCEPT ![t].todo = @ \ {u}]
  /\ UNCHANGED <<profile, vMembers, vConnected, vSock, vOut,
                 recentSignals, sigSeq, cRooms>>
  /\ UNCHANGED <<chatVars, upgrades>>

\* endRoom: await ...update({updatedAt}); back in the handler:
\* io.to(roomId).emit("video:room:ended"); fetchSockets; every socket leaves
handleEndRoom_ended(t) ==
  /\ t \in VLive /\ vTasks[t].pc = "er_loop" /\ vTasks[t].todo = {}
  /\ vOut' = Emit(vOut, VSocketsIn(vTasks[t].roomId),
                  VEvent("video:room:ended", vTasks[t].roomId, vTasks[t].uid, ""))
  /\ vRooms' = [vRooms EXCEPT ![vTasks[t].roomId].updatedAt = @ + 1]
  /\ vMembers' = {m \in vMembers : m[1] # vTasks[t].roomId}
  /\ vTasks' = [vTasks EXCEPT ![t] = VFinish(t, "video:room:ended")]
  /\ UNCHANGED <<profile, vParts, vConnected, vSock,
                 recentSignals, sigSeq, cRooms>>
  /\ UNCHANGED <<chatVars, upgrades>>

----------------------------------------------------------------------------
(* video:signal: VideoController.handleSignal *)

\* webrtcConfig.isValidSignal
isValidSignal(data) ==
  IF ~data.present THEN FALSE
  ELSE IF data.type \in {"offer", "answer"}
       THEN data.sdp # Absent /\ data.sdp # ""
  ELSE IF data.type = "ice-candidate" \/ (data.candidate # Absent /\ data.candidate # "")
       THEN data.candidate # Absent
  ELSE FALSE

\* makeSignalId (dedup profile); the payload snippet is the payload itself
\* for payloads shorter than the 200-character prefix
makeSignalId(type, fromUserId, targetUserId, data) ==
  <<type, fromUserId, IF targetUserId = "" THEN "broadcast" ELSE targetUserId, data>>

\* the payload of a forwarded video:signal: the order of arrival at the
\* server, the signal data, metadata.streamType and the targetUserId it was
\* sent with
Forwarded(t, streamType) ==
  [seq |-> vTasks[t].seq, data |-> vTasks[t].sigData, type |-> vTasks[t].sigType,
   streamType |-> streamType, target |-> vTasks[t].target]

SignalError(t, s, code) ==
  /\ vTasks' = Put(vTasks, VNewTask, [t EXCEPT !.pc = "done", !.res = code])
  /\ vOut' = Emit(vOut, ToSocket(s), VEvent("error", t.roomId, t.uid, code))

\* handler entry: the synchronous validation of the event, then getRoom is called
handleSignal(s, type, roomId, targetUserId, data, metaScreen) ==
  /\ s \in VOpen
  /\ VCanStart
  /\ sigSeq < MaxSignals
  /\ sigSeq' = sigSeq + 1
  /\ LET task == [VTask0 EXCEPT !.kind = "signal", !.sock = s,
                                !.uid = vSock[s].uid, !.roomId = roomId,
                                !.target = targetUserId, !.sigType = type,
                                !.sigData = data, !.meta = metaScreen,
                                !.seq = sigSeq + 1]
     IN IF type \notin {"offer", "answer", "ice-candidate"}
        THEN SignalError(task, s, "INVALID_SIGNAL_TYPE")
        ELSE IF profile = "dedup" /\ roomId = ""
        THEN SignalError(task, s, "MISSING_ROOM")
        ELSE IF ~data.present
        THEN SignalError(task, s, "MISSING_SIGNAL_DATA")
        ELSE IF profile = "relay" /\ ~isValidSignal(data)
        THEN SignalError(task, s, "INVALID_SIGNAL_STRUCTURE")
        ELSE /\ vTasks' = Put(vTasks, VNewTask, [task EXCEPT !.pc = "sg_room"])
             /\ UNCHANGED vOut
  /\ UNCHANGED <<profile, vRooms, vParts, vMembers, vConnected, vSock,
                 recentSignals, cRooms>>
  /\ UNCHANGED <<chatVars, upgrades>>

\* mutant: the membership test of the sender is left out
SenderInRoom_any(room, uid) == TRUE

\* room.participants.includes(socket.user.uid)
SenderInRoom(room, uid) == uid \in room.participants

\* mutant: the broadcast reaches the sending session as well
BroadcastRecipients_all(roomId, sock) == VSocketsIn(roomId)

\* socket.to(roomId) / socketsInRoom.filter(s => s.id !== socket.id)
BroadcastRecipients(roomId, sock) == VSocketsIn(roomId) \ {sock}

SignalFail(t, code) ==
  /\ vTasks' = [vTasks EXCEPT ![t] = VFinish(t, code)]
  /\ vOut' = Emit(vOut, ToSocket(vTasks[t].sock),
                  VEvent("error", vTasks[t].roomId, vTasks[t].uid, code))

\* const room = await VideoService.getRoom(roomId); ROOM_NOT_FOUND and
\* NOT_IN_ROOM checks.  Relay profile: getParticipant(sender) is called.
\* Dedup profile: MUST_INCLUDE_TARGET, the duplicate check and mark, then
\* getParticipant(target) is called or the ice-candidate is broadcast.
handleSignal_room(t) ==
  /\ t \in VLive /\ vTasks[t].pc = "sg_room"
  /\ LET room == getRoom(vTasks[t].roomId)
         task == vTasks[t]
         id == <<task.roomId,
                 makeSignalId(task.sigType, task.uid, task.target, task.sigData)>>
     IN IF ~room.found
        THEN SignalFail(t, "ROOM_NOT_FOUND") /\ UNCHANGED recentSignals
        ELSE IF ~SenderInRoom(room, task.uid)
        THEN SignalFail(t, "NOT_IN_ROOM") /\ UNCHANGED recentSignals
        ELSE IF profile = "relay"
        THEN /\ vTasks' = [vTasks EXCEPT ![t].pc = "sg_sender"]
             /\ UNCHANGED <<vOut, recentSignals>>
        ELSE IF task.sigType \in {"offer", "answer"} /\ task.target = ""
        THEN SignalFail(t, "MUST_INCLUDE_TARGET") /\ UNCHANGED recentSignals
        ELSE IF id \in recentSignals
        THEN /\ vTasks' = [vTasks EXCEPT ![t] = VFinish(t, "duplicate")]
             /\ UNCHANGED <<vOut, recentSignals>>
        ELSE /\ recentSignals' = recentSignals \cup {id}
             /\ IF task.target # ""
                THEN /\ vTasks' = [vTasks EXCEPT ![t].pc = "sg_target"]
                     /\ UNCHANGED vOut
                ELSE /\ vTasks' = [vTasks EXCEPT ![t] = VFinish(t, "video:signal")]
                     /\ vOut' = Emit(vOut, BroadcastRecipients(task.roomId, task.sock),
                                     SignalEvent(task.roomId, task.uid,
                                                 Forwarded(t, Absent)))
  /\ UNCHANGED <<profile, vRooms, vParts, vMembers, vConnected, vSock, sigSeq,
                 cRooms>>
  /\ UNCHANGED <<chatVars, upgrades>>

StreamType(isScreenSharing) == IF isScreenSharing THEN "screen" ELSE "camera"

\* relay profile: const senderParticipant = await getParticipant(roomId, uid);
\* isScreenSharing = senderParticipant?.isScreenSharing || metadata?.isScreenSharing;
\* with a target getParticipant(target) is called, else fetchSockets and
\* socket.to(roomId).emit("video:signal")
handleSignal_sender(t) ==
  /\ t \in VLive /\ vTasks[t].pc = "sg_sender"
  /\ LET task == vTasks[t]
         sender == getParticipant(task.roomId, task.uid)
         isScreenSharing == (sender.found /\ sender.isScreenSharing) \/ task.meta
     IN IF task.target # ""
        THEN /\ vTasks' = [vTasks EXCEPT ![t].pc = "sg_target",
                                         ![t].screen = isScreenSharing]
             /\ UNCHANGED vOut
        ELSE /\ vTasks' = [vTasks EXCEPT ![t] = VFinish(t, "video:signal")]
             /\ vOut' = Emit(vOut, BroadcastRecipients(task.roomId, task.sock),
                             SignalEvent(task.roomId, task.uid,
                                         Forwarded(t, StreamType(isScreenSharing))))
  /\ UNCHANGED <<profile, vRooms, vParts, vMembers, vConnected, vSock,
                 recentSignals, sigSeq, cRooms>>
  /\ UNCHANGED <<chatVars, upgrades>>

\* mutant: the targeted signal is sent to the whole room
TargetRecipients_room(roomId, participant) == VSocketsIn(roomId)

\* io.to(targetParticipant.socketId): the session named by the target's record
TargetRecipients(roomId, participant) == ToSocket(participant.socketId)

\* const targetParticipant = await getParticipant(roomId, targetUserId);
\* TARGET_USER_NOT_FOUND, or io.to(targetParticipant.socketId).emit("video:signal")
handleSignal_target(t) ==
  /\ t \in VLive /\ vTasks[t].pc = "sg_target"
  /\ LET task == vTasks[t]
         targetParticipant == getParticipant(task.roomId, task.target)
     IN IF ~targetParticipant.found
        THEN SignalFail(t, "TARGET_USER_NOT_FOUND")
        ELSE /\ vTasks' = [vTasks EXCEPT ![t] = VFinish(t, "video:signal")]
             /\ vOut' = Emit(vOut, TargetRecipients(task.roomId, targetParticipant),
                             SignalEvent(task.roomId, task.uid,
                                    Forwarded(t, IF profile = "relay"
                                                 THEN StreamType(task.screen)
                                                 ELSE Absent)))
  /\ UNCHANGED <<profile, vRooms, vParts, vMembers, vConnected, vSock,
                 recentSignals, sigSeq, cRooms>>
  /\ UNCHANGED <<chatVars, upgrades>>

\* video:toggle-screen handler entry.  Relay profile: validateUserInRoom calls
\* getRoom; dedup profile: updateParticipantState is called at once
handleToggleScreen(s, roomId, enabled) ==
  /\ s \in VOpen
  /\ VCanStart
  /\ vTasks' = Put(vTasks, VNewTask,
                   [VTask0 EXCEPT !.kind = "toggle-screen", !.sock = s,
                                  !.uid = vSock[s].uid, !.roomId = roomId,
                                  !.enabled = enabled,
                                  !.pc = IF profile = "relay" THEN "ts_room"
                                         ELSE "ts_update"])
  /\ UNCHANGED <<profile, vRooms, vParts, vMembers, vConnected, vSock, vOut,
                 recentSignals, sigSeq, cRooms>>
  /\ UNCHANGED <<chatVars, upgrades>>

\* relay profile, validateUserInRoom: const room = await getRoom(roomId);
\* ROOM_NOT_FOUND and NOT_IN_ROOM, else updateParticipantState is called
validateUserInRoom(t) ==
  /\ t \in VLive /\ vTasks[t].pc = "ts_room"
  /\ LET room == getRoom(vTasks[t].roomId)
     IN IF ~room.found THEN SignalFail(t, "ROOM_NOT_FOUND")
        ELSE IF vTasks[t].uid \notin room.participants
        THEN SignalFail(t, "NOT_IN_ROOM")
        ELSE /\ vTasks' = [vTasks EXCEPT ![t].pc = "ts_update"]
             /\ UNCHANGED vOut
  /\ UNCHANGED <<profile, vRooms, vParts, vMembers, vConnected, vSock,
                 recentSignals, sigSeq, cRooms>>
  /\ UNCHANGED <<chatVars, upgrades>>

\* a negotiation request sent whatever the new state is
NegotiationRecipients_always(roomId, sock, enabled) ==
  BroadcastRecipients(roomId, sock)

\* if (data.enabled) socket.to(data.roomId).emit("video:screen:negotiation:needed")
NegotiationRecipients(roomId, sock, enabled) ==
  IF enabled THEN BroadcastRecipients(roomId, sock) ELSE {}

\* VideoService.updateParticipantState: ...doc(`${roomId}_${userId}`)
\* .update({isScreenSharing}) is applied by the store; update() of a missing
\* document rejects -> TOGGLE_SCREEN_ERROR.  The writes of two toggles are
\* separate requests: the store applies them in one order and the handlers
\* that wait for them are resumed as the acknowledgements arrive, so the
\* write and the resumption of the handler are two steps
updateParticipantState(t) ==
  /\ t \in VLive /\ vTasks[t].pc = "ts_update"
  /\ LET task == vTasks[t]
         key == <<task.roomId, task.uid>>
     IN IF key \notin DOMAIN vParts
        THEN SignalFail(t, "TOGGLE_SCREEN_ERROR") /\ UNCHANGED vParts
        ELSE /\ vParts' = [vParts EXCEPT ![key].isScreenSharing = task.enabled]
             /\ vTasks' = [vTasks EXCEPT ![t].pc = "ts_emit"]
             /\ UNCHANGED vOut
  /\ UNCHANGED <<profile, vRooms, vMembers, vConnected, vSock, recentSignals,
                 sigSeq, cRooms>>
  /\ UNCHANGED <<chatVars, upgrades>>

\* handleToggleScreen after await updateParticipantState: video:screen:toggled
\* to the others in the room (relay profile: to the caller too, and
\* video:screen:negotiation:needed to the others when enabled)
handleToggleScreen_toggled(t) ==
  /\ t \in VLive /\ vTasks[t].pc = "ts_emit"
  /\ LET task == vTasks[t]
         others == BroadcastRecipients(task.roomId, task.sock)
         toggled == [VEvent("video:screen:toggled", task.roomId, task.uid, "")
                       EXCEPT !.enabled = task.enabled]
         needed == VEvent("video:screen:negotiation:needed", task.roomId,
                          task.uid, "")
     IN /\ vTasks' = [vTasks EXCEPT ![t] = VFinish(t, "video:screen:toggled")]
        /\ vOut' = IF profile = "relay"
                   THEN Emit(Emit(Emit(vOut, others, toggled),
                                  ToSocket(task.sock), toggled),
                             NegotiationRecipients(task.roomId, task.sock,
                                                   task.enabled),
                             needed)
                   ELSE Emit(vOut, others, toggled)
  /\ UNCHANGED <<profile, vRooms, vParts, vMembers, vConnected, vSock,
                 recentSignals, sigSeq, cRooms>>
  /\ UNCHANGED <<chatVars, upgrades>>

\* dedup profile, markRecentSignal: the setTimeout callback that forgets a signal
markRecentSignal_expire(id) ==
  /\ id \in recentSignals
  /\ recentSignals' = recentSignals \ {id}
  /\ UNCHANGED <<profile, vRooms, vParts, vMembers, vConnected, vSock, vTasks,
                 vOut, sigSeq, cRooms>>
  /\ UNCHANGED <<chatVars, upgrades>>

----------------------------------------------------------------------------
(* Chat engine: ChatService store access and caches *)

CEvent(name, roomId, userId, code) ==
  [ev |-> name, roomId |-> roomId, userId |-> userId, code |-> code,
   roomCode |-> NoCode, msgId |-> "", rooms |-> {}]

CTask0 ==
  [kind |-> "", sock |-> "", uid |-> "", pc |-> "", phase |-> "",
   roomId |-> "", code |-> NoCode, room |-> NoChatRoom,
   fetched |-> NoChatRoom, visibility |-> "", others |-> {}, attempts |-> 0,
   newId |-> "", content |-> "", msgId |-> "", pub |-> {}, res |-> ""]

CLive == {t \in DOMAIN cTasks : cTasks[t].pc # "done"}

CNewTask == Cardinality(DOMAIN cTasks) + 1

\* handler invocations requested by clients (sendUserRooms runs on connect;
\* room:leave, which waits for no store call, is counted apart)
CCanStart ==
  Cardinality({t \in DOMAIN cTasks : cTasks[t].kind \notin {"rooms", "leave"}})
    < MaxChatTasks

CFinish(t, res) ==
  [cTasks[t] EXCEPT !.pc = "done", !.phase = "", !.res = res,
                    !.room = NoChatRoom, !.fetched = NoChatRoom, !.pub = {}]

COpen == {s \in DOMAIN cSock : cSock[s].open}

CSocketsIn(roomId) == {s \in COpen : <<roomId, s>> \in cMembers}

CToSocket(s) == IF s \in COpen THEN {s} ELSE {}

\* the document in the rooms collection, as ChatService.getRoom maps it
StoredChatRoom(roomId) ==
  IF roomId \in DOMAIN cRooms THEN cRooms[roomId] ELSE NoChatRoom

\* ChatService.clearRoomCache
clearRoomCache(roomId) ==
  /\ roomCache' = Drop(roomCache, roomId)
  /\ userRoomsCache' = [present |-> FALSE, rooms |-> {}]

\* String.prototype.toUpperCase on the characters room codes are typed with
UpperChar(c) ==
  CASE c = "a" -> "A" [] c = "b" -> "B" [] c = "c" -> "C"
    [] c = "x" -> "X" [] c = "y" -> "Y" [] c = "z" -> "Z"
    [] OTHER -> c

toUpperCase(code) == [i \in 1..Len(code) |-> UpperChar(code[i])]


----------------------------------------------------------------------------
(* Chat sessions: ChatController.handleConnection, handleDisconnection,
   sendUserRooms / ChatService.getUserRooms *)

\* socket.broadcast.emit: every open socket except the emitting one
Broadcast(s) == COpen \ {s}

\* handleConnection: connectedUsers.get(userId).add(socket.id);
\* socket.broadcast.emit("user:online"); sendUserRooms(socket) runs up to the
\* first store query of getUserRooms
handleConnection_c(s, token) ==
  /\ s \notin DOMAIN cSock /\ ~Refused(cOut, s)
  /\ LET uid == socketAuthMiddleware(token).uid
         sessions == IF uid \in DOMAIN cConnected THEN cConnected[uid] ELSE {}
     IN IF socketAuthMiddleware(token).ok
        THEN /\ cSock' = Put(cSock, s, [uid |-> uid, open |-> TRUE])
             /\ cConnected' = Put(cConnected, uid, sessions \cup {s})
             /\ cOut' = Emit(cOut, Broadcast(s), CEvent("user:online", "", uid, ""))
             /\ cTasks' = Put(cTasks, CNewTask,
                              [CTask0 EXCEPT !.kind = "rooms", !.sock = s, !.uid = uid,
                                             !.pub = IF userRoomsCache.present
                                                     THEN userRoomsCache.rooms ELSE {},
                                             !.phase = IF userRoomsCache.present
                                                       THEN "hit" ELSE "miss",
                                             !.pc = IF userRoomsCache.present
                                                    THEN "ur_private" ELSE "ur_public"])
        ELSE /\ cOut' = Emit(cOut, {s}, CEvent("connect_error", "", "",
                                               socketAuthMiddleware(token).code))
             /\ UNCHANGED <<cSock, cConnected, cTasks>>
  /\ UNCHANGED <<cRooms, cMsgs, roomCache, cMembers, userRoomsCache, faults>>
  /\ UNCHANGED <<videoVars, upgrades>>

\* getUserRooms, query 1: where("visibility","==","public")
getUserRooms_public(t) ==
  /\ t \in CLive /\ cTasks[t].pc = "ur_public"
  /\ cTasks' = [cTasks EXCEPT
                  ![t].pub = {cRooms[r] : r \in {x \in DOMAIN cRooms :
                                                  cRooms[x].visibility = "public"}},
                  ![t].pc = "ur_private"]
  /\ UNCHANGED <<cRooms, cMsgs, roomCache, cMembers, cConnected, cSock, cOut,
                 userRoomsCache, faults>>
  /\ UNCHANGED <<videoVars, upgrades>>

\* getPrivateRoomsByParticipant, then the rest of getUserRooms (the public
\* rooms are cached when the list was queried and is not empty) and
\* socket.emit("rooms:list")
getUserRooms_private(t) ==
  /\ t \in CLive /\ cTasks[t].pc = "ur_private"
  /\ LET private == {cRooms[r] : r \in {x \in DOMAIN cRooms :
                        /\ cRooms[x].visibility = "private"
                        /\ cTasks[t].uid \in Elems(cRooms[x].participants)}}
         rooms == cTasks[t].pub \cup private
     IN /\ userRoomsCache' =
             IF cTasks[t].phase = "miss" /\ cTasks[t].pub # {}
             THEN [present |-> TRUE, rooms |-> cTasks[t].pub]
             ELSE userRoomsCache
        /\ cOut' = Emit(cOut, CToSocket(cTasks[t].sock),
                        [CEvent("rooms:list", "", cTasks[t].uid, "")
                           EXCEPT !.rooms = {<<r.id, r.code>> : r \in rooms}])
  /\ cTasks' = [cTasks EXCEPT ![t] = CFinish(t, "rooms:list")]
  /\ UNCHANGED <<cRooms, cMsgs, roomCache, cMembers, cConnected, cSock, faults>>
  /\ UNCHANGED <<videoVars, upgrades>>

\* mutant: every disconnect is taken for the user's last
IsLastSession_always(userSockets, s) == TRUE

\* userSockets.delete(socket.id); userSockets.size === 0
IsLastSession(userSockets, s) == userSockets \ {s} = {}

\* the socket closes (socket.io takes it out of every room), then
\* handleDisconnection
handleDisconnection_c(s) ==
  /\ s \in COpen
  /\ LET uid == cSock[s].uid
         userSockets == IF uid \in DOMAIN cConnected THEN cConnected[uid] ELSE {}
     IN IF uid \in DOMAIN cConnected
        THEN IF IsLastSession(userSockets, s)
             THEN /\ cConnected' = Drop(cConnected, uid)
                  /\ cOut' = Emit(cOut, Broadcast(s),
                                  CEvent("user:offline", "", uid, ""))
             ELSE /\ cConnected' = [cConnected EXCEPT ![uid] = @ \ {s}]
                  /\ UNCHANGED cOut
        ELSE UNCHANGED <<cConnected, cOut>>
  /\ cSock' = [cSock EXCEPT ![s].open = FALSE]
  /\ cMembers' = {m \in cMembers : m[2] # s}
  /\ UNCHANGED <<cRooms, cMsgs, roomCache, cTasks, userRoomsCache, faults>>
  /\ UNCHANGED <<videoVars, upgrades>>

\* CACHE_TTL elapses for a roomCache entry: the entry is no longer served
roomCache_expire(roomId) ==
  /\ roomId \in DOMAIN roomCache
  /\ roomCache' = Drop(roomCache, roomId)
  /\ UNCHANGED <<cRooms, cMsgs, cMembers, cConnected, cSock, cTasks, cOut,
                 userRoomsCache, faults>>
  /\ UNCHANGED <<videoVars, upgrades>>

\* CACHE_TTL elapses for the userRoomsCache entry
userRoomsCache_expire ==
  /\ userRoomsCache.present
  /\ userRoomsCache' = [present |-> FALSE, rooms |-> {}]
  /\ UNCHANGED <<cRooms, cMsgs, roomCache, cMembers, cConnected, cSock, cTasks,
                 cOut, faults>>
  /\ UNCHANGED <<videoVars, upgrades>>


----------------------------------------------------------------------------
(* Chat handlers: room:join, message:send *)

CFail(t, code) ==
  /\ cTasks' = [cTasks EXCEPT ![t] = CFinish(t, code)]
  /\ cOut' = Emit(cOut, CToSocket(cTasks[t].sock),
                  CEvent("error", cTasks[t].roomId, cTasks[t].uid, code))
  /\ UNCHANGED cMembers

\* mutant: isParticipant answers true for every user
Includes_any(room, userId) == TRUE

\* room?.participants.includes(userId) || false
Includes(room, userId) == room.found /\ userId \in Elems(room.participants)

\* mutant: the code comparison is left out
CodeMatches_any(room, code) == TRUE

\* room.code === code.toUpperCase()
CodeMatches(room, code) == room.code = toUpperCase(code)

\* the handler code that runs when an awaited ChatService.getRoom (directly, or
\* inside ChatService.isParticipant) returns room
ChatAfter(t, room) ==
  LET task == cTasks[t]
      next(pc) == [task EXCEPT !.pc = pc, !.phase = "", !.fetched = NoChatRoom]
  IN CASE task.pc = "j_room" ->
            \* handleJoinRoom: const room = await getRoom(roomId)
            IF ~room.found THEN CFail(t, "ROOM_NOT_FOUND")
            ELSE /\ cTasks' = [cTasks EXCEPT ![t] = [next("j_isPart") EXCEPT !.room = room]]
                 /\ UNCHANGED <<cOut, cMembers>>
       [] task.pc = "j_isPart" ->
            \* handleJoinRoom: isParticipant, the code checks of a private
            \* room, then addParticipant is called or the socket joins
            IF task.room.visibility = "private" /\ ~Includes(room, task.uid)
               /\ task.code = NoCode
            THEN CFail(t, "CODE_REQUIRED")
            ELSE IF task.room.visibility = "private" /\ ~Includes(room, task.uid)
                    /\ ~CodeMatches(task.room, task.code)
            THEN CFail(t, "INVALID_CODE")
            ELSE IF ~Includes(room, task.uid)
            THEN /\ cTasks' = [cTasks EXCEPT ![t] = next("j_add")]
                 /\ UNCHANGED <<cOut, cMembers>>
            ELSE /\ cTasks' = [cTasks EXCEPT ![t] = next("j_updated")]
                 /\ cMembers' = cMembers \cup {<<task.roomId, task.sock>>}
                 /\ UNCHANGED cOut
       [] task.pc = "j_updated" ->
            \* handleJoinRoom: const updatedRoom = await getRoom(roomId);
            \* room:user-joined to the others, room:joined to the joiner
            /\ cOut' = Emit(Emit(cOut, CSocketsIn(task.roomId) \ {task.sock},
                                 CEvent("room:user-joined", task.roomId, task.uid, "")),
                            CToSocket(task.sock),
                            [CEvent("room:joined", task.roomId, task.uid, "")
                               EXCEPT !.roomCode = room.code])
            /\ cTasks' = [cTasks EXCEPT ![t] = CFinish(t, "room:joined")]
            /\ UNCHANGED cMembers
       [] task.pc = "g_room" ->
            \* handleGetRoom: const room = await getRoom(roomId)
            IF ~room.found THEN CFail(t, "ROOM_NOT_FOUND")
            ELSE /\ cTasks' = [cTasks EXCEPT ![t] = [next("g_isPart") EXCEPT !.room = room]]
                 /\ UNCHANGED <<cOut, cMembers>>
       [] task.pc = "g_isPart" ->
            \* handleGetRoom: isParticipant; a private room is refused to a
            \* non-participant, else room:details with
            \* code: isParticipant ? room.code : undefined
            IF task.room.visibility = "private" /\ ~Includes(room, task.uid)
            THEN CFail(t, "NOT_PARTICIPANT")
            ELSE /\ cOut' = Emit(cOut, CToSocket(task.sock),
                                 [CEvent("room:details", task.roomId, task.uid, "")
                                    EXCEPT !.roomCode = IF Includes(room, task.uid)
                                                        THEN task.room.code
                                                        ELSE NoCode])
                 /\ cTasks' = [cTasks EXCEPT ![t] = CFinish(t, "room:details")]
                 /\ UNCHANGED cMembers
       [] task.pc = "m_room" ->
            \* handleSendMessage: const room = await getRoom(roomId)
            IF ~room.found THEN CFail(t, "ROOM_NOT_FOUND")
            ELSE /\ cTasks' = [cTasks EXCEPT ![t] = next("m_isPart")]
                 /\ UNCHANGED <<cOut, cMembers>>
       [] task.pc = "m_isPart" ->
            \* handleSendMessage: isParticipant; getUserProfile and
            \* saveMessage are called
            IF ~Includes(room, task.uid) THEN CFail(t, "NOT_PARTICIPANT")
            ELSE /\ cTasks' = [cTasks EXCEPT ![t] = next("m_set")]
                 /\ UNCHANGED <<cOut, cMembers>>

GetRoomPcs == {"j_room", "j_isPart", "j_updated", "g_room", "g_isPart",
               "m_room", "m_isPart"}

\* ChatService.getRoom, cache hit: the cached room is returned
getRoom_cached(t) ==
  /\ t \in CLive /\ cTasks[t].pc \in GetRoomPcs /\ cTasks[t].phase = ""
  /\ cTasks[t].roomId \in DOMAIN roomCache
  /\ ChatAfter(t, roomCache[cTasks[t].roomId])
  /\ UNCHANGED <<cRooms, cMsgs, roomCache, cConnected, cSock, userRoomsCache,
                 faults>>
  /\ UNCHANGED <<videoVars, upgrades>>

\* ChatService.getRoom, cache miss: await ...doc(roomId).get()
getRoom_read(t) ==
  /\ t \in CLive /\ cTasks[t].pc \in GetRoomPcs /\ cTasks[t].phase = ""
  /\ cTasks[t].roomId \notin DOMAIN roomCache
  /\ cTasks' = [cTasks EXCEPT ![t].phase = "got",
                              ![t].fetched = StoredChatRoom(cTasks[t].roomId)]
  /\ UNCHANGED <<cRooms, cMsgs, roomCache, cMembers, cConnected, cSock, cOut,
                 userRoomsCache, faults>>
  /\ UNCHANGED <<videoVars, upgrades>>

\* ChatService.getRoom after the read: roomCache.set(roomId, room); return room
getRoom_fill(t) ==
  /\ t \in CLive /\ cTasks[t].pc \in GetRoomPcs /\ cTasks[t].phase = "got"
  /\ roomCache' = IF cTasks[t].fetched.found
                  THEN Put(roomCache, cTasks[t].roomId, cTasks[t].fetched)
                  ELSE roomCache
  /\ ChatAfter(t, cTasks[t].fetched)
  /\ UNCHANGED <<cRooms, cMsgs, cConnected, cSock, userRoomsCache, faults>>
  /\ UNCHANGED <<videoVars, upgrades>>

\* room:join handler entry: getRoom(roomId) is called
handleJoinRoom_c(s, roomId, code) ==
  /\ s \in COpen
  /\ CCanStart
  /\ cTasks' = Put(cTasks, CNewTask,
                   [CTask0 EXCEPT !.kind = "join", !.sock = s,
                                  !.uid = cSock[s].uid, !.roomId = roomId,
                                  !.code = code, !.pc = "j_room"])
  /\ UNCHANGED <<cRooms, cMsgs, roomCache, cMembers, cConnected, cSock, cOut,
                 userRoomsCache, faults>>
  /\ UNCHANGED <<videoVars, upgrades>>

\* room:get handler entry: getRoom(roomId) is called
handleGetRoom(s, roomId) ==
  /\ s \in COpen
  /\ CCanStart
  /\ cTasks' = Put(cTasks, CNewTask,
                   [CTask0 EXCEPT !.kind = "get", !.sock = s,
                                  !.uid = cSock[s].uid, !.roomId = roomId,
                                  !.pc = "g_room"])
  /\ UNCHANGED <<cRooms, cMsgs, roomCache, cMembers, cConnected, cSock, cOut,
                 userRoomsCache, faults>>
  /\ UNCHANGED <<videoVars, upgrades>>

\* a store write rejects (the store is unavailable or the deadline passed)
WriteFails(t, code) ==
  /\ faults < MaxFaults
  /\ faults' = faults + 1
  /\ CFail(t, code)

\* ChatService.addParticipant: await roomRef.update({participants:
\* arrayUnion(userId)}); clearRoomCache; back in handleJoinRoom: socket.join.
\* update() of a missing document, or a failed write, rejects -> JOIN_ROOM_ERROR
addParticipant_c(t) ==
  /\ t \in CLive /\ cTasks[t].pc = "j_add"
  /\ \/ /\ cTasks[t].roomId \in DOMAIN cRooms
        /\ cRooms' = [cRooms EXCEPT ![cTasks[t].roomId].participants =
                                       arrayUnion(@, cTasks[t].uid)]
        /\ clearRoomCache(cTasks[t].roomId)
        /\ cMembers' = cMembers \cup {<<cTasks[t].roomId, cTasks[t].sock>>}
        /\ cTasks' = [cTasks EXCEPT ![t].pc = "j_updated"]
        /\ UNCHANGED <<cOut, faults>>
     \/ /\ WriteFails(t, "JOIN_ROOM_ERROR")
        /\ UNCHANGED <<cRooms, roomCache, userRoomsCache>>
  /\ UNCHANGED <<cMsgs, cConnected, cSock>>
  /\ UNCHANGED <<videoVars, upgrades>>

\* message:send handler entry: getRoom(roomId) is called
handleSendMessage(s, roomId, content) ==
  /\ s \in COpen
  /\ CCanStart
  /\ cTasks' = Put(cTasks, CNewTask,
                   [CTask0 EXCEPT !.kind = "send", !.sock = s,
                                  !.uid = cSock[s].uid, !.roomId = roomId,
                                  !.content = content, !.pc = "m_room"])
  /\ UNCHANGED <<cRooms, cMsgs, roomCache, cMembers, cConnected, cSock, cOut,
                 userRoomsCache, faults>>
  /\ UNCHANGED <<videoVars, upgrades>>

MessageId(n) == IF n = 1 THEN "m1" ELSE IF n = 2 THEN "m2"
                ELSE IF n = 3 THEN "m3" ELSE "m4"

\* message ids handed out so far by firestore.collection("messages").doc()
MessageIdsIssued == Cardinality({t \in DOMAIN cTasks : cTasks[t].msgId # ""})

\* mutant: the rejection of messageRef.set is swallowed and saveMessage goes on
saveMessage_set_swallowed(t) ==
  /\ t \in CLive /\ cTasks[t].pc = "m_set"
  /\ LET id == MessageId(MessageIdsIssued + 1)
     IN \/ /\ cMsgs' = Put(cMsgs, id, [id |-> id, roomId |-> cTasks[t].roomId,
                                       senderId |-> cTasks[t].uid,
                                       content |-> cTasks[t].content])
           /\ cTasks' = [cTasks EXCEPT ![t].pc = "m_touch", ![t].msgId = id]
           /\ UNCHANGED <<cOut, cMembers, faults>>
        \/ /\ faults < MaxFaults
           /\ faults' = faults + 1
           /\ cTasks' = [cTasks EXCEPT ![t].pc = "m_touch", ![t].msgId = id]
           /\ UNCHANGED <<cOut, cMsgs, cMembers>>
  /\ UNCHANGED <<cRooms, roomCache, cConnected, cSock, userRoomsCache>>
  /\ UNCHANGED <<videoVars, upgrades>>

\* ChatService.saveMessage: await messageRef.set(cleanedMessage)
saveMessage_set(t) ==
  /\ t \in CLive /\ cTasks[t].pc = "m_set"
  /\ LET id == MessageId(MessageIdsIssued + 1)
     IN \/ /\ cMsgs' = Put(cMsgs, id, [id |-> id, roomId |-> cTasks[t].roomId,
                                       senderId |-> cTasks[t].uid,
                                       content |-> cTasks[t].content])
           /\ cTasks' = [cTasks EXCEPT ![t].pc = "m_touch", ![t].msgId = id]
           /\ UNCHANGED <<cOut, cMembers, faults>>
        \/ /\ faults < MaxFaults
           /\ faults' = faults + 1
           /\ cTasks' = [cTasks EXCEPT ![t] = [CFinish(t, "SEND_MESSAGE_ERROR")
                                                 EXCEPT !.msgId = id]]
           /\ cOut' = Emit(cOut, CToSocket(cTasks[t].sock),
                           CEvent("error", cTasks[t].roomId, cTasks[t].uid,
                                  "SEND_MESSAGE_ERROR"))
           /\ UNCHANGED <<cMsgs, cMembers>>
  /\ UNCHANGED <<cRooms, roomCache, cConnected, cSock, userRoomsCache>>
  /\ UNCHANGED <<videoVars, upgrades>>

\* ChatService.saveMessage: await ...doc(roomId).update({updatedAt});
\* clearRoomCache; back in handleSendMessage: io.to(roomId).emit("message:new")
saveMessage_touch(t) ==
  /\ t \in CLive /\ cTasks[t].pc = "m_touch"
  /\ \/ /\ cTasks[t].roomId \in DOMAIN cRooms
        /\ clearRoomCache(cTasks[t].roomId)
        /\ cOut' = Emit(cOut, CSocketsIn(cTasks[t].roomId),
                        [CEvent("message:new", cTasks[t].roomId, cTasks[t].uid, "")
                           EXCEPT !.msgId = cTasks[t].msgId])
        /\ cTasks' = [cTasks EXCEPT ![t] = CFinish(t, "message:new")]
        /\ UNCHANGED <<cMembers, faults>>
     \/ /\ WriteFails(t, "SEND_MESSAGE_ERROR")
        /\ UNCHANGED <<roomCache, userRoomsCache>>
  /\ UNCHANGED <<cRooms, cMsgs, cConnected, cSock>>
  /\ UNCHANGED <<videoVars, upgrades>>


----------------------------------------------------------------------------
(* Chat handlers: room:create, room:leave *)

\* ChatService.roomExistsByCode: where("code","==",code).limit(1)
roomExistsByCode(code) == \E r \in DOMAIN cRooms : cRooms[r].code = code

CODE_LENGTH == 6

\* the retry limit of the uniqueness loop in ChatService.createRoom
MaxCodeAttempts == 10

\* ChatService.generateRoomCode draws CODE_LENGTH characters at random; the
\* model draws from CodePool
generateRoomCode == {c \in CodePool : Len(c) = CODE_LENGTH}

\* room:create handler entry: validation of name, type and visibility (an
\* absent field is ""), then createRoom up to its first store call
handleCreateRoom_c(s, name, visibility, others, code) ==
  /\ s \in COpen
  /\ CCanStart
  /\ code \in generateRoomCode
  /\ LET task == [CTask0 EXCEPT !.kind = "create", !.sock = s,
                                !.uid = cSock[s].uid, !.visibility = visibility,
                                !.others = others]
     IN IF name = "" \/ visibility = ""
        THEN /\ cTasks' = Put(cTasks, CNewTask,
                              [task EXCEPT !.pc = "done", !.res = "VALIDATION_ERROR"])
             /\ cOut' = Emit(cOut, CToSocket(s),
                             CEvent("error", "", cSock[s].uid, "VALIDATION_ERROR"))
        ELSE IF visibility = "private"
        THEN /\ cTasks' = Put(cTasks, CNewTask,
                              [task EXCEPT !.pc = "c_check", !.code = code])
             /\ UNCHANGED cOut
        ELSE /\ ChatIdsIssued < MaxChatRooms
             /\ cTasks' = Put(cTasks, CNewTask,
                              [task EXCEPT !.pc = "c_set",
                                           !.newId = ChatRoomId(ChatIdsIssued + 1)])
             /\ UNCHANGED cOut
  /\ UNCHANGED <<cRooms, cMsgs, roomCache, cMembers, cConnected, cSock,
                 userRoomsCache, faults>>
  /\ UNCHANGED <<videoVars, upgrades>>

\* createRoom: one evaluation of
\*   while (await this.roomExistsByCode(roomCode) && attempts < 10)
\*     { roomCode = this.generateRoomCode(); attempts++; }
\* and, when the loop ends, if (attempts >= 10) throw, else the room id is drawn
createRoom_check(t) ==
  /\ t \in CLive /\ cTasks[t].pc = "c_check"
  /\ IF roomExistsByCode(cTasks[t].code) /\ cTasks[t].attempts < MaxCodeAttempts
     THEN /\ \E c \in generateRoomCode :
               cTasks' = [cTasks EXCEPT ![t].code = c, ![t].attempts = @ + 1]
          /\ UNCHANGED <<cOut, cMembers>>
     ELSE IF cTasks[t].attempts >= MaxCodeAttempts
     THEN CFail(t, "CREATE_ROOM_ERROR")
     ELSE /\ ChatIdsIssued < MaxChatRooms
          /\ cTasks' = [cTasks EXCEPT ![t].pc = "c_set",
                                      ![t].newId = ChatRoomId(ChatIdsIssued + 1)]
          /\ UNCHANGED <<cOut, cMembers>>
  /\ UNCHANGED <<cRooms, cMsgs, roomCache, cConnected, cSock, userRoomsCache,
                 faults>>
  /\ UNCHANGED <<videoVars, upgrades>>

\* the room document ChatService.createRoom builds
NewChatRoom(id, createdBy, visibility, code, others) ==
  [found |-> TRUE, id |-> id, visibility |-> visibility,
   code |-> IF visibility = "private" THEN code ELSE NoCode,
   participants |-> IF others = {} THEN <<createdBy>>
                    ELSE <<createdBy>> \o
                         (CHOOSE q \in [1..Cardinality(others \ {createdBy})
                                          -> others \ {createdBy}] :
                            Elems(q) = others \ {createdBy}),
   createdBy |-> createdBy,
   videoRoomId |-> ""]

\* createRoom: await ...doc(roomId).set(cleanedRoom); clearRoomCache; back in
\* the handler: socket.join(room.id), room:created to the creator with the code
\* and, for a public room, to every other socket with code: undefined
createRoom_set(t) ==
  /\ t \in CLive /\ cTasks[t].pc = "c_set"
  /\ LET task == cTasks[t]
         room == NewChatRoom(task.newId, task.uid, task.visibility, task.code,
                             task.others)
         created == CEvent("room:created", room.id, task.uid, "")
         out1 == Emit(cOut, CToSocket(task.sock),
                      [created EXCEPT !.roomCode = room.code])
     IN \/ /\ cRooms' = Put(cRooms, room.id, room)
           /\ clearRoomCache(room.id)
           /\ cMembers' = cMembers \cup {<<room.id, task.sock>>}
           /\ cOut' = IF room.visibility = "public"
                      THEN Emit(out1, Broadcast(task.sock), created)
                      ELSE out1
           /\ cTasks' = [cTasks EXCEPT ![t] = [CFinish(t, "room:created")
                                                 EXCEPT !.roomId = room.id]]
           /\ UNCHANGED faults
        \/ /\ WriteFails(t, "CREATE_ROOM_ERROR")
           /\ UNCHANGED <<cRooms, roomCache, userRoomsCache>>
  /\ UNCHANGED <<cMsgs, cConnected, cSock>>
  /\ UNCHANGED <<videoVars, upgrades>>

\* a leave that takes every session out of the room
LeftSubscriptions_room(roomId, s) == {m \in cMembers : m[1] = roomId}

\* socket.leave(roomId): the subscriptions the call removes
LeftSubscriptions(roomId, s) == {<<roomId, s>>}

\* room:leave: socket.leave(roomId); room:user-left to the others in the
\* room; room:left to the caller
handleLeaveRoom_c(s, roomId) ==
  /\ s \in COpen
  /\ Cardinality({t \in DOMAIN cTasks : cTasks[t].kind = "leave"}) < MaxLeaves
  /\ cMembers' = cMembers \ LeftSubscriptions(roomId, s)
  /\ cOut' = Emit(Emit(cOut, CSocketsIn(roomId) \ {s},
                       CEvent("room:user-left", roomId, cSock[s].uid, "")),
                  {s}, CEvent("room:left", roomId, cSock[s].uid, ""))
  /\ cTasks' = Put(cTasks, CNewTask,
                   [CTask0 EXCEPT !.kind = "leave", !.sock = s,
                                  !.uid = cSock[s].uid, !.roomId = roomId,
                                  !.pc = "done", !.res = "room:left"])
  /\ UNCHANGED <<cRooms, cMsgs, roomCache, cConnected, cSock, userRoomsCache,
                 faults>>
  /\ UNCHANGED <<videoVars, upgrades>>


----------------------------------------------------------------------------
(* Inputs *)

\* handshakes <<socket, token>> of the video clients: three users, one tab each
VHandshakes == {<<"v1", "u1">>, <<"v2", "u2">>, <<"v3", "u3">>}

\* video:room:join payloads <<roomId, code>>: by id, by code, unknown id
VJoinInputs == {<<"vr1", NoCode>>, <<"", CodeA>>, <<"vr3", NoCode>>}

\* video:room:create payloads: maxParticipants (0 = absent)
VMaxInputs == {0, 2}

\* video:signal payloads <<type, roomId, targetUserId, data, metadata.isScreenSharing>>
SignalInputs ==
  {<<"offer", "vr1", u, d, FALSE>> : u \in {"u1", "u2"}, d \in {OfferA, OfferB}}
  \cup {<<"offer", "vr1", "", OfferA, FALSE>>,
        <<"ice-candidate", "vr1", "", CandA, FALSE>>,
        <<"offer", "vr1", "u3", OfferA, FALSE>>,
        <<"offer", "vr3", "u1", OfferA, FALSE>>,
        <<"bogus", "vr1", "u1", OfferA, FALSE>>,
        <<"offer", "vr1", "u1", OfferEmpty, FALSE>>,
        <<"offer", "vr1", "u1", NoData, FALSE>>,
        <<"offer", "", "u1", OfferA, FALSE>>}

\* handshakes of the chat clients: u1 with two tabs, u2 with one
CHandshakes == {<<"c1", "u1">>, <<"c2", "u1">>, <<"c3", "u2">>}

\* the user of a chat socket
CUserOf(s) == CHOOSE u \in Users : <<s, u>> \in CHandshakes

\* room:join payloads <<roomId, code>> of the chat engine: codes as clients
\* type them, and a room that does not exist
CodeALower == <<"a", "b", "c", "1", "2", "3">>
CJoinInputs == {<<"cr1", c>> : c \in {NoCode, CodeA, CodeALower, CodeB}}
               \cup {<<"cr4", CodeA>>}

\* message:send payloads <<roomId, content>>
CSendInputs == {<<"cr1", "hello">>, <<"cr4", "hello">>}

\* room:create payloads <<name, visibility, other participants>>
CCreateInputs == {<<"team", "private", {}>>, <<"town", "public", {}>>,
                  <<"", "private", {}>>}

----------------------------------------------------------------------------
(* Specifications *)

InitVideoIdle ==
  /\ vRooms = <<>> /\ vParts = <<>> /\ vMembers = {} /\ vConnected = <<>>
  /\ vSock = <<>> /\ vTasks = <<>> /\ vOut = [s \in VSockets |-> <<>>]
  /\ recentSignals = {} /\ sigSeq = 0

InitChatIdle ==
  /\ cRooms = <<>> /\ cMsgs = <<>> /\ roomCache = <<>> /\ cMembers = {}
  /\ cConnected = <<>> /\ cSock = <<>> /\ cTasks = <<>>
  /\ cOut = [s \in CSockets |-> <<>>]
  /\ userRoomsCache = [present |-> FALSE, rooms |-> {}]
  /\ faults = 0
  /\ upgrades = <<>>

Init ==
  /\ profile \in {"relay", "dedup"}
  /\ InitVideoIdle
  /\ InitChatIdle

\* The video engine after u1 (socket v1) created room vr1 with a linked chat
\* and a requested maxParticipants of 2, and the other users have connected:
\* the state handleConnection_v, handleCreateRoom_v, createRoom_chatSet,
\* createRoom_roomSet, addParticipant_getRoom and addParticipant_set leave
RoomCreated ==
  /\ vSock = [s \in VSockets |->
                [uid |-> (CHOOSE u \in Users : <<s, u>> \in VHandshakes),
                 open |-> TRUE]]
  /\ vRooms = Put(<<>>, "vr1",
                  NewVideoRoom("vr1", "u1", CreateMax(2), CodeA, "cr1"))
  /\ vParts = Put(<<>>, <<"vr1", "u1">>, NewParticipant("u1", "v1"))
  /\ vMembers = {<<"vr1", "v1">>}
  /\ vConnected = Put(<<>>, <<"u1", "vr1">>, "v1")
  /\ cRooms = Put(<<>>, "cr1", LinkedChatRoom("cr1", "u1", CodeB, "vr1"))

InitRoomCreated ==
  /\ profile \in {"relay", "dedup"}
  /\ RoomCreated
  /\ vTasks = <<>> /\ vOut = [s \in VSockets |-> <<>>]
  /\ recentSignals = {} /\ sigSeq = 0
  /\ cMsgs = <<>> /\ roomCache = <<>> /\ cMembers = {}
  /\ cConnected = <<>> /\ cSock = <<>> /\ cTasks = <<>>
  /\ cOut = [s \in CSockets |-> <<>>]
  /\ userRoomsCache = [present |-> FALSE, rooms |-> {}]
  /\ faults = 0
  /\ upgrades = <<>>

\* The video engine after u2 (socket v2) also joined room vr1: the state
\* handleJoinRoom_v .. handleJoinRoom_joined leave from RoomCreated (the relay
\* profile has added u2 to the linked chat room as well)
RoomJoined ==
  /\ vSock = [s \in VSockets |->
                [uid |-> (CHOOSE u \in Users : <<s, u>> \in VHandshakes),
                 open |-> TRUE]]
  /\ vRooms = Put(<<>>, "vr1",
                  [NewVideoRoom("vr1", "u1", CreateMax(2), CodeA, "cr1")
                     EXCEPT !.participants = {"u1", "u2"}, !.updatedAt = 1])
  /\ vParts = Put(Put(<<>>, <<"vr1", "u1">>, NewParticipant("u1", "v1")),
                  <<"vr1", "u2">>, NewParticipant("u2", "v2"))
  /\ vMembers = {<<"vr1", "v1">>, <<"vr1", "v2">>}
  /\ vConnected = Put(Put(<<>>, <<"u1", "vr1">>, "v1"), <<"u2", "vr1">>, "v2")
  /\ cRooms = Put(<<>>, "cr1",
                  [LinkedChatRoom("cr1", "u1", CodeB, "vr1")
                     EXCEPT !.participants = IF profile = "relay"
                                             THEN <<"u1", "u2">> ELSE <<"u1">>])

InitRoomJoined ==
  /\ profile \in {"relay", "dedup"}
  /\ RoomJoined
  /\ vTasks = <<>> /\ vOut = [s \in VSockets |-> <<>>]
  /\ recentSignals = {} /\ sigSeq = 0
  /\ cMsgs = <<>> /\ roomCache = <<>> /\ cMembers = {}
  /\ cConnected = <<>> /\ cSock = <<>> /\ cTasks = <<>>
  /\ cOut = [s \in CSockets |-> <<>>]
  /\ userRoomsCache = [present |-> FALSE, rooms |-> {}]
  /\ faults = 0
  /\ upgrades = <<>>

VideoDisconnect == \E s \in VSockets : handleDisconnection_v(s)

VideoCreate ==
  \/ \E s \in VSockets, m \in VMaxInputs, chat \in BOOLEAN, c \in CodePool :
        handleCreateRoom_v(s, m, chat, CodeA, c)
  \/ \E t \in DOMAIN vTasks : addParticipant_getRoom(t)
  \/ \E t \in DOMAIN vTasks : addParticipant_set(t)
  \/ \E t \in DOMAIN vTasks : createRoom_chatSet(t)
  \/ \E t \in DOMAIN vTasks : createRoom_roomSet(t)

VideoJoin ==
  \/ \E s \in VSockets, in \in VJoinInputs : handleJoinRoom_v(s, in[1], in[2])
  \/ \E t \in DOMAIN vTasks : addParticipant_getRoom(t)
  \/ \E t \in DOMAIN vTasks : addParticipant_update(t)
  \/ \E t \in DOMAIN vTasks : addParticipant_set(t)
  \/ \E t \in DOMAIN vTasks : addUserToChatRoom_getRoom(t)
  \/ \E t \in DOMAIN vTasks : addUserToChatRoom_get(t)
  \/ \E t \in DOMAIN vTasks : addUserToChatRoom_update(t)
  \/ \E t \in DOMAIN vTasks : handleJoinRoom_joined(t)

VideoLeave ==
  \/ \E s \in VSockets, r \in {"vr1"} : handleLeaveRoom_v(s, r)
  \/ \E t \in DOMAIN vTasks : removeParticipant_update(t)
  \/ \E t \in DOMAIN vTasks : removeParticipant_delete(t)

VideoEnd ==
  \/ \E s \in VSockets, r \in {"vr1", "vr3"} : handleEndRoom_v(s, r)
  \/ \E t \in DOMAIN vTasks : endRoom_getRoom(t)
  \/ \E t \in DOMAIN vTasks : endRoom_list(t)
  \/ \E t \in DOMAIN vTasks : endRoom_remove(t)
  \/ \E t \in DOMAIN vTasks : handleEndRoom_ended(t)

VideoSignal ==
  \/ \E s \in VSockets, in \in SignalInputs :
        handleSignal(s, in[1], in[2], in[3], in[4], in[5])
  \/ \E t \in DOMAIN vTasks : handleSignal_room(t)
  \/ \E t \in DOMAIN vTasks : handleSignal_sender(t)
  \/ \E t \in DOMAIN vTasks : handleSignal_target(t)
  \/ \E id \in recentSignals : markRecentSignal_expire(id)

VideoToggleScreen ==
  \/ \E s \in VSockets, e \in BOOLEAN : handleToggleScreen(s, "vr1", e)
  \/ \E t \in DOMAIN vTasks : validateUserInRoom(t)
  \/ \E t \in DOMAIN vTasks : updateParticipantState(t)
  \/ \E t \in DOMAIN vTasks : handleToggleScreen_toggled(t)

\* video:signal of the participants with the metadata clients attach
\* (metadata.isScreenSharing absent or true)
VideoSignalMeta ==
  \/ \E s \in {"v1", "v2"}, meta \in BOOLEAN :
        \/ handleSignal(s, "offer", "vr1", "u2", OfferA, meta)
        \/ handleSignal(s, "ice-candidate", "vr1", "", CandA, meta)
  \/ \E t \in DOMAIN vTasks : handleSignal_room(t)
  \/ \E t \in DOMAIN vTasks : handleSignal_sender(t)
  \/ \E t \in DOMAIN vTasks : handleSignal_target(t)

\* signalling next to screen sharing
SpecScreen == InitRoomJoined /\ [][VideoToggleScreen \/ VideoSignalMeta]_vars

\* joins and leaves of a room that exists
SpecJoin == InitRoomCreated /\ [][VideoJoin \/ VideoLeave]_vars

\* joins and ends of a room that exists
SpecEnd == InitRoomCreated /\ [][VideoJoin \/ VideoEnd]_vars

\* signalling in a room with two participants, with leaves
SpecSignal == InitRoomJoined /\ [][VideoSignal \/ VideoLeave]_vars

\* The video engine after u1 (socket v1) created room vr1, u2 joined it through
\* socket v2 and then opened a second session, v3, that has joined nothing
InitSessions ==
  /\ profile \in {"relay", "dedup"}
  /\ vSock = [s \in VSockets |->
                [uid |-> IF s = "v1" THEN "u1" ELSE "u2", open |-> TRUE]]
  /\ vRooms = Put(<<>>, "vr1",
                  [NewVideoRoom("vr1", "u1", CreateMax(2), CodeA, "cr1")
                     EXCEPT !.participants = {"u1", "u2"}, !.updatedAt = 1])
  /\ vParts = Put(Put(<<>>, <<"vr1", "u1">>, NewParticipant("u1", "v1")),
                  <<"vr1", "u2">>, NewParticipant("u2", "v2"))
  /\ vMembers = {<<"vr1", "v1">>, <<"vr1", "v2">>}
  /\ vConnected = Put(Put(<<>>, <<"u1", "vr1">>, "v1"), <<"u2", "vr1">>, "v2")
  /\ cRooms = Put(<<>>, "cr1",
                  [LinkedChatRoom("cr1", "u1", CodeB, "vr1")
                     EXCEPT !.participants = IF profile = "relay"
                                             THEN <<"u1", "u2">> ELSE <<"u1">>])
  /\ vTasks = <<>> /\ vOut = [s \in VSockets |-> <<>>]
  /\ recentSignals = {} /\ sigSeq = 0
  /\ cMsgs = <<>> /\ roomCache = <<>> /\ cMembers = {}
  /\ cConnected = <<>> /\ cSock = <<>> /\ cTasks = <<>>
  /\ cOut = [s \in CSockets |-> <<>>]
  /\ userRoomsCache = [present |-> FALSE, rooms |-> {}]
  /\ faults = 0
  /\ upgrades = <<>>

\* sessions of a room close and leave while a user holds two sessions
SpecSessions == InitSessions /\ [][VideoDisconnect \/ VideoLeave]_vars

\* sessions of a joined room close and leave, no store write fails; every
\* pending call of removeParticipant is resumed when its write has completed
SpecDrop ==
  /\ InitRoomJoined
  /\ [][VideoDisconnect \/ VideoLeave]_vars
  /\ WF_vars(\E t \in DOMAIN vTasks : removeParticipant_update(t))
  /\ WF_vars(\E t \in DOMAIN vTasks : removeParticipant_delete(t))

VideoFault ==
  \/ \E t \in DOMAIN vTasks : addParticipant_rejects(t)
  \/ \E t \in DOMAIN vTasks : removeParticipant_rejects(t)

\* joins, leaves and disconnects of a created room, with store writes that fail
SpecMembership ==
  InitRoomCreated /\ [][VideoJoin \/ VideoLeave \/ VideoDisconnect
                          \/ VideoFault]_vars

\* ending a room with two participants while participants leave; no join is
\* in flight
SpecClose == InitRoomJoined /\ [][VideoEnd \/ VideoLeave]_vars

(* Chat engine *)

\* the chat clients socks connected and idle, no message stored
ChatConnected(socks) ==
  /\ cSock = [s \in socks |-> [uid |-> CUserOf(s), open |-> TRUE]]
  /\ cConnected = [u \in {CUserOf(s) : s \in socks} |->
                     {s \in socks : CUserOf(s) = u}]
  /\ cTasks = <<>> /\ cOut = [s \in CSockets |-> <<>>]
  /\ cMsgs = <<>> /\ roomCache = <<>>
  /\ userRoomsCache = [present |-> FALSE, rooms |-> {}]
  /\ faults = 0
  /\ upgrades = <<>>

\* The chat engine after u1 (socket c1) created the private room cr1 with code
\* CodeA: the state handleCreateRoom_c, createRoom_check and createRoom_set leave
InitChatRoom ==
  /\ profile = "relay"
  /\ InitVideoIdle
  /\ ChatConnected({"c1", "c3"})
  /\ cRooms = Put(<<>>, "cr1", NewChatRoom("cr1", "u1", "private", CodeA, {}))
  /\ cMembers = {<<"cr1", "c1">>}

ChatConnect == \E in \in CHandshakes : handleConnection_c(in[1], in[2])

ChatRooms ==
  \/ \E t \in DOMAIN cTasks : getUserRooms_public(t)
  \/ \E t \in DOMAIN cTasks : getUserRooms_private(t)

ChatDisconnect == \E s \in CSockets : handleDisconnection_c(s)

ChatGetRoom ==
  \/ \E t \in DOMAIN cTasks : getRoom_cached(t)
  \/ \E t \in DOMAIN cTasks : getRoom_read(t)
  \/ \E t \in DOMAIN cTasks : getRoom_fill(t)
  \/ \E r \in DOMAIN roomCache : roomCache_expire(r)

ChatJoin ==
  \/ \E s \in CSockets, in \in CJoinInputs : handleJoinRoom_c(s, in[1], in[2])
  \/ \E t \in DOMAIN cTasks : addParticipant_c(t)

ChatSend ==
  \/ \E s \in CSockets, in \in CSendInputs : handleSendMessage(s, in[1], in[2])
  \/ \E t \in DOMAIN cTasks : saveMessage_set(t)
  \/ \E t \in DOMAIN cTasks : saveMessage_touch(t)

ChatCreate ==
  \/ \E s \in CSockets, in \in CCreateInputs, c \in CodePool :
        handleCreateRoom_c(s, in[1], in[2], in[3], c)
  \/ \E t \in DOMAIN cTasks : createRoom_check(t)
  \/ \E t \in DOMAIN cTasks : createRoom_set(t)

ChatLeave == \E s \in CSockets, r \in {"cr1"} : handleLeaveRoom_c(s, r)

\* handshakes <<socket, auth.token, query.token>> as clients send them: a
\* token in the auth payload, a token in the query only, no token, a forged
\* token, and a forged token in the auth payload with a good one in the query
ForgedToken == "forged"

VHandshakesRaw ==
  {<<"v1", "u1", NoToken>>, <<"v2", NoToken, "u2">>,
   <<"v4", NoToken, NoToken>>, <<"v5", ForgedToken, NoToken>>}

CHandshakesRaw ==
  {<<"c1", "u1", NoToken>>, <<"c2", NoToken, "u1">>, <<"c3", "u2", NoToken>>,
   <<"c4", NoToken, NoToken>>, <<"c5", ForgedToken, "u2">>}

InitHandshake ==
  /\ profile \in {"relay", "dedup"}
  /\ vRooms = <<>> /\ vParts = <<>> /\ vMembers = {} /\ vConnected = <<>>
  /\ vSock = <<>> /\ vTasks = <<>>
  /\ vOut = [s \in {h[1] : h \in VHandshakesRaw} |-> <<>>]
  /\ recentSignals = {} /\ sigSeq = 0
  /\ cRooms = <<>> /\ cMembers = {} /\ cConnected = <<>> /\ cSock = <<>>
  /\ cTasks = <<>> /\ cOut = [s \in {h[1] : h \in CHandshakesRaw} |-> <<>>]
  /\ cMsgs = <<>> /\ roomCache = <<>>
  /\ userRoomsCache = [present |-> FALSE, rooms |-> {}]
  /\ faults = 0
  /\ upgrades = <<>>

VideoHandshake ==
  \E h \in VHandshakesRaw : handleConnection_v(h[1], HandshakeToken(h[2], h[3]))

ChatHandshake ==
  \E h \in CHandshakesRaw : handleConnection_c(h[1], HandshakeToken(h[2], h[3]))

\* handshakes of both engines, accepted and refused
SpecHandshake ==
  InitHandshake /\ [][VideoHandshake \/ ChatHandshake \/ ChatRooms]_vars

\* The two engines over one store: u1 has created the video room vr1 with its
\* linked chat room cr1, and the chat clients c1 (u1) and c3 (u2) are connected
InitLinked ==
  /\ profile \in {"relay", "dedup"}
  /\ RoomCreated
  /\ vTasks = <<>> /\ vOut = [s \in VSockets |-> <<>>]
  /\ recentSignals = {} /\ sigSeq = 0
  /\ ChatConnected({"c1", "c3"})
  /\ cMembers = {<<"cr1", "c1">>}

\* users join the video room while chat clients read the linked chat room
SpecLinked ==
  InitLinked
    /\ [][VideoJoin \/ ChatGetRoom
           \/ handleGetRoom("c1", "cr1")]_vars

\* presence: sessions open and close
SpecPresence == Init /\ [][ChatConnect \/ ChatRooms \/ ChatDisconnect]_vars

\* joins and messages in a private room
SpecChat == InitChatRoom /\ [][ChatGetRoom \/ ChatJoin \/ ChatSend]_vars

\* room creation by both engines: u1 connected to the video engine, u1 and u2
\* to the chat engine
InitCreate ==
  /\ profile \in {"relay", "dedup"}
  /\ vSock = Put(<<>>, "v1", [uid |-> "u1", open |-> TRUE])
  /\ vRooms = <<>> /\ vParts = <<>> /\ vMembers = {} /\ vConnected = <<>>
  /\ vTasks = <<>> /\ vOut = [s \in VSockets |-> <<>>]
  /\ recentSignals = {} /\ sigSeq = 0
  /\ ChatConnected({"c1", "c3"})
  /\ cRooms = <<>> /\ cMembers = {}

SpecCreate == InitCreate /\ [][VideoCreate \/ ChatCreate]_vars

\* The chat engine after u1 (socket c1) created the private room cr1 with
\* code CodeA and the public room cr2, with u2 (socket c3) connected
InitDetails ==
  /\ profile = "relay"
  /\ InitVideoIdle
  /\ ChatConnected({"c1", "c3"})
  /\ cRooms = Put(Put(<<>>, "cr1", NewChatRoom("cr1", "u1", "private", CodeA, {})),
                  "cr2", NewChatRoom("cr2", "u1", "public", NoCode, {}))
  /\ cMembers = {<<"cr1", "c1">>, <<"cr2", "c1">>}

ChatDetails == \E s \in CSockets, r \in {"cr1", "cr2", "cr4"} : handleGetRoom(s, r)

\* room:get next to room:join
SpecDetails == InitDetails /\ [][ChatGetRoom \/ ChatDetails \/ ChatJoin]_vars

\* room:join next to room:leave
SpecRejoin == InitChatRoom /\ [][ChatGetRoom \/ ChatJoin \/ ChatLeave]_vars

\* message:send next to room:leave
SpecTalk == InitChatRoom /\ [][ChatGetRoom \/ ChatSend \/ ChatLeave]_vars

----------------------------------------------------------------------------
(* Claims *)

\* C1: after any interleaving of video:room:join requests the number of
\* participants of a video room never exceeds its maxParticipants
C1_CapacityRespected ==
  \A r \in DOMAIN vRooms :
    Cardinality(vRooms[r].participants) <= vRooms[r].maxParticipants

\* the open chat sessions of a user
OpenSessions(sock, u) == {s \in DOMAIN sock : sock[s].open /\ sock[s].uid = u}

\* how many times a chat client has received event name about user u
Received(out, s, name, u) ==
  Cardinality({i \in 1..Len(out[s]) : out[s][i].ev = name /\ out[s][i].userId = u})

\* C2: user:online {userId} is broadcast only when the connecting session is
\* the first open session of that userId
C2_OnlineOnlyOnFirstSession ==
  [][\A u \in Users : \A s \in CSockets :
       Received(cOut', s, "user:online", u) > Received(cOut, s, "user:online", u)
       => OpenSessions(cSock, u) = {}]_vars

\* C3: user:offline {userId} is broadcast exactly once per online period of a
\* user, at the disconnect that closes the user's last open session, to every
\* other open session; no other step emits it
C3_OfflineOncePerPeriod ==
  [][\A u \in Users : \A s \in CSockets :
       Received(cOut', s, "user:offline", u)
         - Received(cOut, s, "user:offline", u)
       = IF /\ OpenSessions(cSock, u) # {}
            /\ OpenSessions(cSock', u) = {}
            /\ s \in DOMAIN cSock' /\ cSock'[s].open
         THEN 1 ELSE 0]_vars

\* C3 witness: u1 opened two sessions and closed both while c3 was open, and
\* c3 has received user:offline for u1 once
C3_Witness ==
  /\ {"c1", "c2", "c3"} \subseteq DOMAIN cSock
  /\ ~cSock["c1"].open /\ ~cSock["c2"].open /\ cSock["c3"].open
  /\ Received(cOut, "c3", "user:online", "u1") >= 1
  /\ Received(cOut, "c3", "user:offline", "u1") = 1

\* positions of the video:signal events in a client's stream
SignalsAt(s) == {i \in 1..Len(vOut[s]) : vOut[s][i].ev = "video:signal"}

\* C4: for a fixed sender and a fixed targetUserId in a video room,
\* video:signal events reach the target in the order the sender emitted them
C4_TargetedOrderKept ==
  \A s \in VSockets : \A i, j \in SignalsAt(s) :
    (/\ i < j
     /\ vOut[s][i].userId = vOut[s][j].userId
     /\ vOut[s][i].roomId = vOut[s][j].roomId
     /\ vOut[s][i].sig.target # ""
     /\ vOut[s][i].sig.target = vOut[s][j].sig.target)
    => vOut[s][i].sig.seq < vOut[s][j].sig.seq

\* the step is taken by chat handler invocation t
CStepOf(t) == t \notin DOMAIN cTasks \/ cTasks'[t] # cTasks[t]

\* the last event a chat client has received is the error code
LastIsError(out, s, code) ==
  Len(out[s]) > 0 /\ out[s][Len(out[s])].ev = "error"
  /\ out[s][Len(out[s])].code = code

\* C5: room:join on a private chat room by a user who is not yet a participant
\* adds the user and subscribes the session only if the supplied code,
\* upper-cased, equals the room's code; with no code the request fails with
\* CODE_REQUIRED, with a non-matching code with INVALID_CODE, and then
\* participants is unchanged
C5_PrivateJoinNeedsCode ==
  [][\A t \in DOMAIN cTasks' :
       LET task == cTasks'[t]
           r == task.roomId
       IN (/\ task.kind = "join"
           /\ CStepOf(t)
           /\ r \in DOMAIN cRooms
           /\ cRooms[r].visibility = "private"
           /\ task.uid \notin Elems(cRooms[r].participants))
          => /\ (\/ task.uid \in Elems(cRooms'[r].participants)
                 \/ <<r, task.sock>> \in cMembers' \ cMembers)
                => toUpperCase(task.code) = cRooms[r].code
             /\ (task.pc = "done" /\ task.code = NoCode)
                => /\ task.res = "CODE_REQUIRED"
                   /\ LastIsError(cOut', task.sock, "CODE_REQUIRED")
                   /\ cRooms' = cRooms /\ cMembers' = cMembers
             /\ (/\ task.pc = "done" /\ task.code # NoCode
                 /\ toUpperCase(task.code) # cRooms[r].code)
                => /\ task.res = "INVALID_CODE"
                   /\ LastIsError(cOut', task.sock, "INVALID_CODE")
                   /\ cRooms' = cRooms /\ cMembers' = cMembers]_vars

\* C5 witness: u2, not a participant of the private room, was refused with a
\* wrong code and admitted with the room's code typed in lower case
C5_Witness ==
  /\ \E t \in DOMAIN cTasks :
       cTasks[t].kind = "join" /\ cTasks[t].uid = "u2"
       /\ cTasks[t].code = CodeB /\ cTasks[t].res = "INVALID_CODE"
  /\ \E t \in DOMAIN cTasks :
       cTasks[t].kind = "join" /\ cTasks[t].uid = "u2"
       /\ cTasks[t].code = CodeALower /\ cTasks[t].res = "room:joined"
  /\ "u2" \in Elems(cRooms["cr1"].participants)
  /\ <<"cr1", "c3">> \in cMembers

\* C6: every chat message that is inserted has a senderId in the participants
\* of its room at the moment of the insert; message:send by a user who is not
\* a participant fails with NOT_PARTICIPANT and stores nothing
C6_SenderIsParticipant ==
  [][/\ \A m \in DOMAIN cMsgs' \ DOMAIN cMsgs :
          /\ cMsgs'[m].roomId \in DOMAIN cRooms
          /\ cMsgs'[m].senderId \in Elems(cRooms[cMsgs'[m].roomId].participants)
     /\ \A t \in DOMAIN cTasks :
          /\ cTasks[t].pc = "done" => cTasks'[t] = cTasks[t]
          /\ (/\ cTasks[t].kind = "send"
              /\ cTasks[t].pc = "m_isPart"
              /\ cTasks'[t].pc # "m_isPart"
              /\ cTasks[t].uid \notin Elems(StoredChatRoom(cTasks[t].roomId).participants))
             => /\ cTasks'[t].pc = "done"
                /\ cTasks'[t].res = "NOT_PARTICIPANT"
                /\ cTasks'[t].msgId = ""
                /\ LastIsError(cOut', cTasks[t].sock, "NOT_PARTICIPANT")
                /\ cMsgs' = cMsgs]_vars

\* C6 witness: a participant's message is stored and a send by a user outside
\* the room was answered NOT_PARTICIPANT
C6_Witness ==
  /\ \E m \in DOMAIN cMsgs : cMsgs[m].senderId = "u1"
  /\ \E t \in DOMAIN cTasks :
       cTasks[t].kind = "send" /\ cTasks[t].uid = "u2"
       /\ cTasks[t].res = "NOT_PARTICIPANT"
  /\ "u2" \notin Elems(cRooms["cr1"].participants)

\* C7: message:new for a message is emitted only after the store write of
\* that message has completed; if the write fails no session receives
\* message:new for it
C7_NewOnlyAfterWrite ==
  \A s \in CSockets : \A i \in 1..Len(cOut[s]) :
    cOut[s][i].ev = "message:new"
    => /\ cOut[s][i].msgId \in DOMAIN cMsgs
       /\ cMsgs[cOut[s][i].msgId].roomId = cOut[s][i].roomId
       /\ \A t \in DOMAIN cTasks :
            cTasks[t].msgId = cOut[s][i].msgId => cTasks[t].res = "message:new"

\* C7 witness: one message was written and announced, the write of another
\* failed
C7_Witness ==
  /\ \E s \in CSockets : \E i \in 1..Len(cOut[s]) : cOut[s][i].ev = "message:new"
  /\ \E t \in DOMAIN cTasks :
       /\ cTasks[t].kind = "send" /\ cTasks[t].res = "SEND_MESSAGE_ERROR"
       /\ cTasks[t].msgId \notin DOMAIN cMsgs

\* C8: every persisted chat room has a code if and only if it is private, and
\* no two chat rooms carry the same code
C8_CodeIffPrivateAndUnique ==
  \A r \in DOMAIN cRooms :
    /\ cRooms[r].code # NoCode <=> cRooms[r].visibility = "private"
    /\ \A q \in DOMAIN cRooms \ {r} :
         cRooms[r].code # NoCode => cRooms[q].code # cRooms[r].code

\* the step is taken by handler invocation t (its entry or its continuation)
VStepOf(t) == t \notin DOMAIN vTasks \/ vTasks'[t] # vTasks[t]

\* the video:room:ended events delivered so far
EndedEvents(out) ==
  {<<s, i>> \in VSockets \X (1..(MaxVideoTasks * 4)) :
     i <= Len(out[s]) /\ out[s][i].ev = "video:room:ended"}

\* C9: video:room:end by a user other than the room's hostId is rejected with
\* UNAUTHORIZED and changes nothing: no participant record removed, no
\* video:room:ended emitted, no session unsubscribed
C9_NonHostEndUnauthorized ==
  [][\A t \in DOMAIN vTasks' :
       (/\ vTasks'[t].kind = "end"
        /\ VStepOf(t)
        /\ vTasks'[t].roomId \in DOMAIN vRooms
        /\ vRooms[vTasks'[t].roomId].hostId # vTasks'[t].uid)
       => /\ vParts' = vParts /\ vRooms' = vRooms /\ vMembers' = vMembers
          /\ EndedEvents(vOut') = EndedEvents(vOut)
          /\ vTasks'[t].pc = "done" => vTasks'[t].res = "UNAUTHORIZED"]_vars

NewSignals(s) ==
  {i \in (Len(vOut[s]) + 1)..Len(vOut'[s]) : vOut'[s][i].ev = "video:signal"}

\* the step is the lookup of the target by signal handler invocation t
TargetStep(t) ==
  /\ vTasks[t].kind = "signal" /\ vTasks[t].pc = "sg_target"
  /\ vTasks'[t] # vTasks[t]

\* C11: a video:signal carrying targetUserId is delivered to exactly one
\* session, the one whose id is the socketId of the target's current
\* VideoParticipant record for the room, and to no other session; if the
\* target has no record in the room the sender receives TARGET_USER_NOT_FOUND
\* and nothing is delivered
C11_TargetedToRecordedSession ==
  [][/\ \A t \in DOMAIN vTasks :
          TargetStep(t)
          => LET task == vTasks[t]
                 record == getParticipant(task.roomId, task.target)
             IN IF record.found
                THEN /\ vTasks'[t].res = "video:signal"
                     /\ \A s \in VSockets :
                          IF s = record.socketId /\ s \in VOpen
                          THEN /\ Len(vOut'[s]) = Len(vOut[s]) + 1
                               /\ NewSignals(s) = {Len(vOut'[s])}
                               /\ vOut'[s][Len(vOut'[s])].sig.seq = task.seq
                               /\ vOut'[s][Len(vOut'[s])].userId = task.uid
                          ELSE vOut'[s] = vOut[s]
                ELSE /\ vTasks'[t].res = "TARGET_USER_NOT_FOUND"
                     /\ LastIsError(vOut', task.sock, "TARGET_USER_NOT_FOUND")
                     /\ \A s \in VSockets : NewSignals(s) = {}
     /\ \A s \in VSockets : \A i \in NewSignals(s) :
          vOut'[s][i].sig.target # ""
          => \E t \in DOMAIN vTasks :
               TargetStep(t) /\ vTasks[t].seq = vOut'[s][i].sig.seq]_vars

\* C11 witness: u1's offer for u2 has reached v2 alone, and an offer for u3,
\* who has no record in the room, was answered TARGET_USER_NOT_FOUND
C11_Witness ==
  /\ \E t \in DOMAIN vTasks :
       vTasks[t].kind = "signal" /\ vTasks[t].res = "TARGET_USER_NOT_FOUND"
  /\ \E i \in SignalsAt("v2") :
       vOut["v2"][i].sig.target = "u2" /\ vOut["v2"][i].userId = "u1"
  /\ SignalsAt("v1") = {} /\ SignalsAt("v3") = {}

\* the rooms whose access code an event of the chat engine carries
CodesIn(e) ==
  (IF e.roomCode # NoCode THEN {e.roomId} ELSE {})
  \cup {p[1] : p \in {q \in e.rooms : q[2] # NoCode}}

UserJoinedSeen(s, r, u) ==
  Cardinality({i \in 1..Len(cOut[s]) :
                 /\ cOut[s][i].ev = "room:user-joined"
                 /\ cOut[s][i].roomId = r /\ cOut[s][i].userId = u})

\* C13: a room:join from a session that is already subscribed to the chat
\* room emits no room:user-joined to the other subscribers (the joiner still
\* receives room:joined).  While no session leaves, every room:user-joined
\* for a user then answers to a different session of that user that became
\* subscribed: a subscriber has seen at most as many as the user has
\* subscribed sessions
C13_NoDuplicateUserJoined ==
  \A r \in DOMAIN cRooms : \A u \in Users : \A s \in CSockets :
    UserJoinedSeen(s, r, u)
      <= Cardinality({x \in CSocketsIn(r) : cSock[x].uid = u})

\* the finished joins of a session on a room
JoinsDone(s, r) ==
  {t \in DOMAIN cTasks : /\ cTasks[t].kind = "join" /\ cTasks[t].sock = s
                         /\ cTasks[t].roomId = r
                         /\ cTasks[t].res = "room:joined"}

\* the positions of an event about room r in a chat client's stream
SeenAt(s, name, r) ==
  {i \in 1..Len(cOut[s]) : cOut[s][i].ev = name /\ cOut[s][i].roomId = r}

\* C14: after room:join, room:leave and room:join again on the same chat
\* room, the participants array holds the user exactly once after each join,
\* and the joiner has received room:joined for each join
C14_RejoinKeepsOneEntry ==
  \A s \in DOMAIN cSock : \A r \in DOMAIN cRooms :
    JoinsDone(s, r) # {}
    => /\ Cardinality({i \in 1..Len(cRooms[r].participants) :
                         cRooms[r].participants[i] = cSock[s].uid}) = 1
       /\ Cardinality(SeenAt(s, "room:joined", r)) = Cardinality(JoinsDone(s, r))

\* C14 witness: u2's session has received room:joined, room:left and
\* room:joined again for the room, in that order
C14_Witness ==
  /\ Cardinality(JoinsDone("c3", "cr1")) = 2
  /\ \E i, k \in SeenAt("c3", "room:joined", "cr1") :
       \E j \in SeenAt("c3", "room:left", "cr1") : i < j /\ j < k
  /\ <<"cr1", "c3">> \in cMembers

\* the positions of message:new for message m in a chat client's stream
NewAt(out, s, m) ==
  {i \in 1..Len(out[s]) : out[s][i].ev = "message:new" /\ out[s][i].msgId = m}

\* C15: for every message:send that succeeds, message:new for that message is
\* delivered exactly once to every session subscribed to the room, and the
\* sending session is among the recipients
C15_NewToSubscribersAndSender ==
  /\ [](\A s \in CSockets : \A m \in DOMAIN cMsgs :
          Cardinality(NewAt(cOut, s, m)) <= 1)
  /\ [][\A t \in DOMAIN cTasks :
          (/\ cTasks[t].kind = "send" /\ cTasks[t].pc # "done"
           /\ cTasks'[t].pc = "done" /\ cTasks'[t].res = "message:new")
          => /\ \A s \in CSocketsIn(cTasks[t].roomId) :
                  /\ NewAt(cOut, s, cTasks[t].msgId) = {}
                  /\ Cardinality(NewAt(cOut', s, cTasks[t].msgId)) = 1
             /\ NewAt(cOut', cTasks[t].sock, cTasks[t].msgId) # {}]_vars

\* C16: a video:signal of kind offer that carries no targetUserId is rejected
\* with MUST_INCLUDE_TARGET (or with the error of an earlier check) and is not
\* forwarded to any session
C16_OfferNeedsTarget ==
  /\ \A s \in VSockets : \A i \in SignalsAt(s) :
       ~(vOut[s][i].sig.type = "offer" /\ vOut[s][i].sig.target = "")
  /\ \A t \in DOMAIN vTasks :
       (/\ vTasks[t].kind = "signal" /\ vTasks[t].pc = "done"
        /\ vTasks[t].sigType = "offer" /\ vTasks[t].target = "")
       => vTasks[t].res \in {"MUST_INCLUDE_TARGET", "ROOM_NOT_FOUND",
                             "NOT_IN_ROOM", "MISSING_ROOM",
                             "MISSING_SIGNAL_DATA", "INVALID_SIGNAL_STRUCTURE"}

\* C17: a video:signal of kind ice-candidate with no targetUserId is accepted
\* and delivered to every session subscribed to the room except the sending
\* session, which never receives its own signal.  The handler refuses it only
\* when the room is missing or the sender is not in it; the optional duplicate
\* suppression drops it only when the identical signal is in the window
C17_CandidateBroadcast ==
  /\ [](\A s \in DOMAIN vSock : \A i \in SignalsAt(s) :
          vOut[s][i].sig.target = "" => vOut[s][i].userId # vSock[s].uid)
  /\ [][\A t \in DOMAIN vTasks :
          (/\ vTasks[t].kind = "signal" /\ vTasks[t].sigType = "ice-candidate"
           /\ vTasks[t].target = "" /\ vTasks[t].pc # "done"
           /\ vTasks'[t].pc = "done")
          => LET task == vTasks[t]
                 room == getRoom(task.roomId)
                 id == <<task.roomId, makeSignalId(task.sigType, task.uid,
                                                   task.target, task.sigData)>>
             IN CASE vTasks'[t].res = "video:signal" ->
                       \A s \in VSockets :
                         IF s \in VSocketsIn(task.roomId) /\ s # task.sock
                         THEN /\ Len(vOut'[s]) = Len(vOut[s]) + 1
                              /\ NewSignals(s) = {Len(vOut'[s])}
                              /\ vOut'[s][Len(vOut'[s])].sig.seq = task.seq
                              /\ vOut'[s][Len(vOut'[s])].sig.data = task.sigData
                         ELSE vOut'[s] = vOut[s]
                  [] vTasks'[t].res = "ROOM_NOT_FOUND" -> ~room.found
                  [] vTasks'[t].res = "NOT_IN_ROOM" ->
                       task.uid \notin room.participants
                  [] vTasks'[t].res = "duplicate" ->
                       profile = "dedup" /\ id \in recentSignals
                  [] OTHER -> FALSE]_vars

\* C17 witness: u1's ice-candidate without a target has reached v2, the other
\* subscriber, and not v1
C17_Witness ==
  /\ \E i \in SignalsAt("v2") :
       /\ vOut["v2"][i].sig.type = "ice-candidate"
       /\ vOut["v2"][i].sig.target = "" /\ vOut["v2"][i].userId = "u1"
  /\ SignalsAt("v1") = {}
  /\ {<<"vr1", "v1">>, <<"vr1", "v2">>} \subseteq vMembers

\* C18: every forwarded video:signal carries metadata.streamType "screen" if
\* the sender's stored VideoParticipant screen sharing flag is true at
\* forwarding time and "camera" otherwise, whatever metadata the client
\* supplied; signals sent after video:toggle-screen {enabled: true} carry
\* "screen"
C18_StreamTypeFromRecord ==
  [][\A s \in VSockets : \A i \in NewSignals(s) :
       vOut'[s][i].sig.streamType
         = StreamType(getParticipant(vOut'[s][i].roomId,
                                     vOut'[s][i].userId).isScreenSharing)]_vars

\* the join attempts on room r by users outside its creator
NewcomerJoins(r) ==
  {t \in DOMAIN vTasks : /\ vTasks[t].kind = "join" /\ vTasks[t].roomId = r
                         /\ vTasks[t].uid # vRooms[r].hostId}

\* the newcomers whose join attempt ended with video:room:joined
Admitted(r) ==
  {vTasks[t].uid : t \in {j \in NewcomerJoins(r) :
                            vTasks[j].res = "video:room:joined"}}

\* C19: when join attempts arrive concurrently at a video room, as many
\* from distinct users succeed as the room has free places (maxParticipants
\* of them in an empty room) and every further attempt ends with the error
\* code ROOM_FULL
C19_ConcurrentJoinsFillExactly ==
  \A r \in DOMAIN vRooms :
    (/\ \A t \in DOMAIN vTasks : vTasks[t].kind = "join" /\ vTasks[t].pc = "done"
     /\ \A t, j \in NewcomerJoins(r) : vTasks[t].uid = vTasks[j].uid => t = j)
    => /\ Cardinality(Admitted(r)) <= vRooms[r].maxParticipants - 1
       /\ \A t \in NewcomerJoins(r) :
            vTasks[t].res \in {"video:room:joined", "ROOM_FULL"}

\* an earlier video:room:end of user u for room r has been carried out
EndedBefore(r, u) ==
  \E t \in DOMAIN vTasks : /\ vTasks[t].kind = "end" /\ vTasks[t].roomId = r
                           /\ vTasks[t].uid = u
                           /\ vTasks[t].res = "video:room:ended"

\* the video:room:end handlers that take a step, after the same user's
\* earlier video:room:end for the same room has been carried out
SecondEndSteps ==
  {t \in DOMAIN vTasks' :
     /\ vTasks'[t].kind = "end"
     /\ t \in DOMAIN vTasks => vTasks'[t] # vTasks[t]
     /\ EndedBefore(vTasks'[t].roomId, vTasks'[t].uid)}

\* C20: a second video:room:end for the same room from the host is a no-op:
\* it fails with ROOM_NOT_FOUND or is silent, it changes no state and no
\* further video:room:ended is emitted
C20_SecondEndIsNoOp ==
  [][\A t \in SecondEndSteps :
       /\ vTasks'[t].pc = "done"
            => vTasks'[t].res \in {"ROOM_NOT_FOUND", "video:room:ended"}
       /\ vRooms' = vRooms /\ vParts' = vParts
       /\ vMembers' = vMembers /\ vConnected' = vConnected
       /\ \A s \in VSockets :
            \A i \in (Len(vOut[s]) + 1)..Len(vOut'[s]) :
              vOut'[s][i].ev \in {"error"}]_vars

\* the video:room:end handlers that complete the end of their room in this step
EndCompletes ==
  {t \in DOMAIN vTasks : /\ vTasks[t].kind = "end" /\ vTasks[t].pc # "done"
                         /\ vTasks'[t].res = "video:room:ended"}

\* the events a video session receives in this step
NewEvents(s) == {vOut'[s][i].ev : i \in (Len(vOut[s]) + 1)..Len(vOut'[s])}

LeftBefore(r, u) ==
  \E t \in DOMAIN vTasks : /\ vTasks[t].kind = "leave" /\ vTasks[t].roomId = r
                           /\ vTasks[t].uid = u /\ vTasks[t].res = "left"

\* the video:room:leave handlers that take a step, after the same user's
\* earlier video:room:leave for the same room has been carried out
SecondLeaveSteps ==
  {t \in DOMAIN vTasks' :
     /\ vTasks'[t].kind = "leave"
     /\ t \in DOMAIN vTasks => vTasks'[t] # vTasks[t]
     /\ LeftBefore(vTasks'[t].roomId, vTasks'[t].uid)}

\* C22: video leave is idempotent: a second video:room:leave by the same user
\* for the same room leaves the participants of the room and its
\* VideoParticipant records as the first leave left them and raises no error
C22_LeaveIdempotent ==
  [][\A t \in SecondLeaveSteps :
       LET r == vTasks'[t].roomId
       IN /\ r \in DOMAIN vRooms
               => vRooms'[r].participants = vRooms[r].participants
          /\ \A k \in DOMAIN vParts \cup DOMAIN vParts' :
               k[1] = r => /\ k \in DOMAIN vParts /\ k \in DOMAIN vParts'
                           /\ vParts'[k] = vParts[k]
          /\ vTasks'[t].res # "LEAVE_ROOM_ERROR"
          /\ "error" \notin NewEvents(vTasks'[t].sock)]_vars

\* C22 witness: u2 has left room vr1 twice; u1 is still in it
C22_Witness ==
  /\ Cardinality({t \in DOMAIN vTasks :
                    /\ vTasks[t].kind = "leave" /\ vTasks[t].uid = "u2"
                    /\ vTasks[t].roomId = "vr1" /\ vTasks[t].res = "left"}) = 2
  /\ getRoom("vr1").participants = {"u1"}
  /\ {p.userId : p \in getRoomParticipants("vr1")} = {"u1"}

\* the room:leave handlers that run in this step
LeaveSteps == {t \in DOMAIN cTasks' \ DOMAIN cTasks : cTasks'[t].kind = "leave"}

\* C23: room:leave unsubscribes only the calling session and leaves the
\* persisted participants of the chat room unchanged, so the user is still a
\* participant after leaving
C23_LeaveKeepsMembership ==
  [][\A t \in LeaveSteps :
       /\ cMembers' = cMembers \ {<<cTasks'[t].roomId, cTasks'[t].sock>>}
       /\ cRooms' = cRooms]_vars

\* C23 witness: session c1 of participant u1 has left room cr1; u1 is still a
\* participant, and the session c3 of u2 is still subscribed
C23_Witness ==
  /\ \E t \in DOMAIN cTasks : /\ cTasks[t].kind = "leave" /\ cTasks[t].sock = "c1"
                              /\ cTasks[t].roomId = "cr1"
  /\ "u1" \in Elems(cRooms["cr1"].participants)
  /\ <<"cr1", "c1">> \notin cMembers
  /\ <<"cr1", "c3">> \in cMembers

\* the room:create handlers that give up in this step, their code and each of
\* the MaxCodeAttempts retries having met the code of an existing room
GivesUp ==
  {t \in DOMAIN cTasks : /\ cTasks[t].kind = "create" /\ cTasks[t].pc = "c_check"
                         /\ cTasks[t].attempts >= MaxCodeAttempts
                         /\ cTasks'[t].pc = "done"}

\* C24: when the generated code of a private chat room and every one of the
\* 10 retries collide with the code of an existing room, creation fails, the
\* creator receives an error with code CODE_GENERATION_FAILED and no room is
\* persisted
C24_CodeGenerationFailed ==
  [][\A t \in GivesUp : /\ cTasks'[t].res = "CODE_GENERATION_FAILED"
                        /\ cRooms' = cRooms]_vars

\* C25: a video-engine handshake that carries no token is admitted (its
\* session is given userId "anonymous_" followed by its sessionId and
\* displayName "Guest " followed by a prefix of its sessionId): the client of
\* such a handshake is never refused
C25_AnonymousAdmitted ==
  \A h \in VHandshakesRaw :
    (h[2] = NoToken /\ h[3] = NoToken)
      => /\ ~Refused(vOut, h[1])
         /\ h[1] \in DOMAIN vSock => vSock[h[1]].uid = <<"anonymous_", h[1]>>

\* the chat sessions the server knows: registered in the presence map, or
\* with an event being processed
KnownChatSessions ==
  DOMAIN cSock
    \cup UNION {cConnected[u] : u \in DOMAIN cConnected}
    \cup {cTasks[t].sock : t \in DOMAIN cTasks}
    \cup {m[2] : m \in cMembers}

\* C26: no chat session is registered in the presence map or has any of its
\* events processed unless its handshake token (taken from the auth payload,
\* else from the query) was accepted by the token verifier; a handshake with
\* no token is refused with AUTH_REQUIRED and one whose token is rejected is
\* refused with AUTH_FAILED
C26_ChatSessionsAuthenticated ==
  \A h \in CHandshakesRaw :
    LET s == h[1]
        token == IF h[2] # NoToken THEN h[2] ELSE h[3]
    IN /\ s \in KnownChatSessions
            => /\ token \in Users
               /\ s \in DOMAIN cSock /\ cSock[s].uid = token
       /\ \A i \in 1..Len(cOut[s]) :
            cOut[s][i].ev = "connect_error"
              => cOut[s][i].code = IF token = NoToken THEN "AUTH_REQUIRED"
                                   ELSE "AUTH_FAILED"
       /\ Refused(cOut, s) => token \notin Users

\* C26 witness: the session with a token in the query only is registered for
\* u1, the handshake without a token has been refused with AUTH_REQUIRED and
\* the one with a forged token with AUTH_FAILED
C26_Witness ==
  /\ "c2" \in DOMAIN cSock /\ "c2" \in cConnected["u1"]
  /\ \E i \in 1..Len(cOut["c4"]) : cOut["c4"][i].code = "AUTH_REQUIRED"
  /\ \E i \in 1..Len(cOut["c5"]) : cOut["c5"][i].code = "AUTH_FAILED"
  /\ {"c4", "c5"} \cap KnownChatSessions = {}

\* the chat handlers that end in this step
EndsNow == {t \in DOMAIN cTasks : cTasks[t].pc # "done" /\ cTasks'[t].pc = "done"}

\* C27: a store operation that fails with a transient error is retried once
\* (at most 2 attempts in total) before the failure is surfaced to the
\* client, and the error surfaced after the second failure has code
\* STORE_UNAVAILABLE: no handler ends at the first failed attempt, and one
\* that ends at a failed attempt ends with STORE_UNAVAILABLE
C27_StoreRetriedOnce ==
  [][faults' = faults + 1
       => \A t \in EndsNow : /\ faults' >= 2
                             /\ cTasks'[t].res = "STORE_UNAVAILABLE"]_vars

\* the video:toggle-screen handlers that complete in this step
ToggleCompletes ==
  {t \in DOMAIN vTasks : /\ vTasks[t].kind = "toggle-screen"
                         /\ vTasks[t].pc # "done"
                         /\ vTasks'[t].res = "video:screen:toggled"}

-----------------------------------------------------------------------------
(* Edge gateway *)

\* a URL or a header value is the sequence of its pieces; "?" opens the query
ChatPrefix == <<"/api", "/chat">>

VideoPrefix == <<"/api", "/video">>

DuplexPath == <<"/socket.io">>

\* req.headers.referer is undefined
NoReferer == <<>>

\* String.prototype.startsWith
startsWith(str, prefix) ==
  Len(prefix) <= Len(str) /\ SubSeq(str, 1, Len(prefix)) = prefix

\* String.prototype.includes
includes(str, part) ==
  \E i \in 0..(Len(str) - Len(part)) : SubSeq(str, i + 1, i + Len(part)) = part

\* the path of a URL: what precedes the query
pathOf(url) ==
  IF \E i \in 1..Len(url) : url[i] = "?"
  THEN SubSeq(url, 1, (CHOOSE i \in 1..Len(url) :
                         url[i] = "?" /\ \A j \in 1..(i - 1) : url[j] # "?") - 1)
  ELSE url

\* httpServer.on("upgrade"): the proxies whose upgrade() the handler calls
upgradeTargets(url, referer) ==
  IF \/ includes(url, ChatPrefix)
     \/ startsWith(url, DuplexPath) /\ includes(referer, ChatPrefix)
  THEN {"chat"}
  ELSE IF \/ includes(url, VideoPrefix)
          \/ startsWith(url, DuplexPath) /\ includes(referer, VideoPrefix)
       THEN {"video"}
       ELSE IF startsWith(url, DuplexPath) THEN {"chat"} ELSE {}

MaxUpgrades == 2

\* upgrade requests as clients send them: the duplex path under each prefix,
\* the bare duplex path, the duplex path under /api/video with a query that
\* names /api/chat, and a path the gateway does not route
UpgradeUrls ==
  {<<"/api", "/chat", "/socket.io">>, <<"/api", "/video", "/socket.io">>,
   <<"/socket.io">>,
   <<"/api", "/video", "/socket.io", "?", "from=", "/api", "/chat">>,
   <<"/health">>}

UpgradeReferers ==
  {NoReferer, <<"http://host", "/api", "/chat">>,
   <<"http://host", "/api", "/video">>}

\* httpServer.on("upgrade", (req, socket, head) => ...)
onUpgrade(url, referer) ==
  /\ Len(upgrades) < MaxUpgrades
  /\ upgrades' = Append(upgrades, [url |-> url, referer |-> referer,
                                   to |-> upgradeTargets(url, referer)])
  /\ UNCHANGED <<videoVars, chatVars, cRooms>>

GatewayUpgrade ==
  \E url \in UpgradeUrls : \E referer \in UpgradeReferers : onUpgrade(url, referer)

\* the gateway handling upgrade requests
SpecGateway == Init /\ [][GatewayUpgrade]_vars

\* C29: every upgrade request the gateway forwards goes to exactly one
\* backend: to Chat when its path is under /api/chat, to Video when its path
\* is under /api/video, and to Chat when it carries only the duplex path and
\* nothing in the request names a backend
C29_UpgradeRouting ==
  \A i \in 1..Len(upgrades) :
    LET u == upgrades[i]
        path == pathOf(u.url)
    IN /\ u.to # {} => Cardinality(u.to) = 1
       /\ startsWith(path, ChatPrefix) => u.to = {"chat"}
       /\ startsWith(path, VideoPrefix) => u.to = {"video"}
       /\ (/\ path = DuplexPath
           /\ ~includes(u.url, ChatPrefix) /\ ~includes(u.url, VideoPrefix)
           /\ ~includes(u.referer, ChatPrefix)
           /\ ~includes(u.referer, VideoPrefix)) => u.to = {"chat"}

-----------------------------------------------------------------------------
\* the calls of ChatService.getRoom that start in this step and return the
\* cached room
CachedReturns ==
  {t \in DOMAIN cTasks : /\ cTasks[t].pc \in GetRoomPcs /\ cTasks[t].phase = ""
                         /\ cTasks[t].roomId \in DOMAIN roomCache
                         /\ cTasks'[t] # cTasks[t]}

\* C30: once a write to a chat room has completed and invalidated the cache,
\* no later getRoom returns the room record from before the write, even when
\* another getRoom for the room was in flight during the write: a getRoom
\* that is answered from the cache returns the room as it is stored
C30_NoStaleRoom ==
  [][\A t \in CachedReturns :
       roomCache[cTasks[t].roomId] = StoredChatRoom(cTasks[t].roomId)]_vars

-----------------------------------------------------------------------------
\* no handler of the video engine is between two of its awaited steps
VideoQuiescent == VLive = {}

\* C31: at every quiescent point, every session subscribed to the fan-out of a
\* video room belongs to a user who is in the participants of that room, also
\* after join attempts that failed with ROOM_NOT_FOUND, ROOM_FULL or a store
\* error
C31_SubscribersAreParticipants ==
  VideoQuiescent
    => \A m \in vMembers :
         m[2] \in VOpen => vSock[m[2]].uid \in getRoom(m[1]).participants

\* C32: at every quiescent point, after any sequence of create, join, leave,
\* disconnect and end operations (store writes that fail included), a
\* VideoParticipant record keyed (roomId, userId) exists if and only if
\* userId is in the participants of that video room
C32_RecordIffParticipant ==
  VideoQuiescent
    => /\ \A k \in DOMAIN vParts : k[2] \in getRoom(k[1]).participants
       /\ \A r \in DOMAIN vRooms : \A u \in vRooms[r].participants :
            <<r, u>> \in DOMAIN vParts

\* user u has asked to leave room r
LeaveRequested(r, u) ==
  \E t \in DOMAIN vTasks : /\ vTasks[t].kind = "leave" /\ vTasks[t].roomId = r
                           /\ vTasks[t].uid = u

\* C33: when a user has several video sessions, the disconnect of one of them
\* removes only the memberships that session established: a room joined
\* through another session of the user that is still connected (and that the
\* user has not asked to leave) keeps the user in participants and keeps the
\* VideoParticipant record of that session
C33_DisconnectKeepsOtherSessions ==
  VideoQuiescent
    => \A m \in vMembers :
         (m[2] \in VOpen /\ ~LeaveRequested(m[1], vSock[m[2]].uid))
           => /\ vSock[m[2]].uid \in getRoom(m[1]).participants
              /\ getParticipant(m[1], vSock[m[2]].uid).socketId = m[2]

\* socket s has received video:user:left for user u of room r
SawUserLeft(s, r, u) ==
  \E i \in 1..Len(vOut[s]) : /\ vOut[s][i].ev = "video:user:left"
                             /\ vOut[s][i].roomId = r /\ vOut[s][i].userId = u

\* the user of session s is out of room r: not in participants, no
\* VideoParticipant record, and the sessions still subscribed have been told
Reconciled(s, r) ==
  /\ vSock[s].uid \notin getRoom(r).participants
  /\ <<r, vSock[s].uid>> \notin DOMAIN vParts
  /\ \A o \in VSocketsIn(r) : SawUserLeft(o, r, vSock[s].uid)

JoinedUsers(r) ==
  {vTasks[t].uid : t \in {x \in DOMAIN vTasks :
                            /\ vTasks[x].kind = "join" /\ vTasks[x].roomId = r
                            /\ vTasks[x].res = "video:room:joined"}}

\* C35: (controller of part_002) when several users concurrently join a video
\* room that has a linked chat room, each of them is in the participants of
\* the linked chat room once all joins have completed, and no participant
\* that was there before has been dropped (u1 created both rooms)
C35_LinkedChatKeepsJoiners ==
  (profile = "relay" /\ VideoQuiescent)
    => \A r \in DOMAIN vRooms :
         vRooms[r].chatRoomId \in DOMAIN cRooms
           => (JoinedUsers(r) \cup {"u1"})
                \subseteq Elems(cRooms[vRooms[r].chatRoomId].participants)

\* the message:send handlers that announce their message in this step
SendCompletes ==
  {t \in DOMAIN cTasks : /\ cTasks[t].kind = "send" /\ cTasks[t].pc # "done"
                         /\ cTasks'[t].res = "message:new"}

\* the room has no entry in roomCache and the public-rooms list is not cached
CachesCleared(roomId) ==
  roomId \notin DOMAIN roomCache' /\ ~userRoomsCache'.present

\* C36: every operation that changes the participants of a chat room or
\* inserts a message into it, the video engine's addition of a joiner to a
\* linked chat room included, removes the entry of that room from the
\* single-room cache and clears the shared public-rooms list cache
C36_MutationsInvalidate ==
  [][/\ \A r \in DOMAIN cRooms \cap DOMAIN cRooms' :
          cRooms'[r].participants # cRooms[r].participants => CachesCleared(r)
     /\ \A t \in SendCompletes : CachesCleared(cTasks[t].roomId)]_vars

\* C37: if a message:send ends with an error event to the sender, no message
\* has been persisted for that request (so that a message is stored if and
\* only if it was announced with message:new)
C37_ErrorMeansNotStored ==
  \A t \in DOMAIN cTasks :
    (/\ cTasks[t].kind = "send" /\ cTasks[t].pc = "done"
     /\ cTasks[t].res # "message:new")
      => cTasks[t].msgId \notin DOMAIN cMsgs

\* the positions of the video:screen:toggled events of user u at socket o
ToggledAt(o, u) ==
  {i \in 1..Len(vOut[o]) : /\ vOut[o][i].ev = "video:screen:toggled"
                           /\ vOut[o][i].userId = u}

\* a video:toggle-screen of session s has not completed
TogglePending(s) ==
  \E t \in VLive : vTasks[t].kind = "toggle-screen" /\ vTasks[t].sock = s

\* C38: (controller of part_002) after any sequence of screen toggles issued
\* by one session in a video room, all of them completed, the
\* isScreenSharing flag stored in the
\* VideoParticipant record of the user equals the value carried by the last
\* video:screen:toggled delivered to the other subscribers
C38_StoredFlagIsLastToggle ==
  \A s \in {"v1", "v2"} : \A o \in VSocketsIn("vr1") \ {s} :
    (profile = "relay" /\ ~TogglePending(s) /\ ToggledAt(o, vSock[s].uid) # {})
      => LET last == CHOOSE i \in ToggledAt(o, vSock[s].uid) :
                       \A j \in ToggledAt(o, vSock[s].uid) : j <= i
         IN vOut[o][last].enabled
              = getParticipant("vr1", vSock[s].uid).isScreenSharing

\* C39: the creation of a private chat room fails for lack of a unique code
\* only when every generated candidate collided: when createRoom gives up,
\* the candidate it holds, the one the last retry produced, is the code of an
\* existing room
C39_FailsOnlyWhenAllCollide ==
  [][\A t \in GivesUp : roomExistsByCode(cTasks[t].code)]_vars

\* the video:signal handlers that drop their signal as a duplicate in this step
DroppedNow ==
  {t \in DOMAIN vTasks : vTasks[t].pc = "sg_room" /\ vTasks'[t].res = "duplicate"}

\* handler x received, in the same room, a signal with the kind, sender,
\* target and payload of the signal of handler t, and has forwarded it or is
\* about to (it waits for the record of the target)
ForwardedSame(t, x) ==
  /\ vTasks[x].kind = "signal" /\ vTasks[x].roomId = vTasks[t].roomId
  /\ makeSignalId(vTasks[x].sigType, vTasks[x].uid, vTasks[x].target,
                  vTasks[x].sigData)
       = makeSignalId(vTasks[t].sigType, vTasks[t].uid, vTasks[t].target,
                      vTasks[t].sigData)
  /\ vTasks[x].res = "video:signal" \/ vTasks[x].pc = "sg_target"

\* C40: in the duplicate-suppression profile a video:signal is dropped only if
\* a signal with the same kind, sender, target and payload prefix was
\* forwarded in the same room within the preceding 5 seconds (its mark has
\* not expired); once the window has elapsed an identical signal is forwarded
\* again
C40_DroppedOnlyIfForwarded ==
  [][profile = "dedup"
       => \A t \in DroppedNow :
            /\ <<vTasks[t].roomId,
                 makeSignalId(vTasks[t].sigType, vTasks[t].uid, vTasks[t].target,
                              vTasks[t].sigData)>> \in recentSignals
            /\ \E x \in DOMAIN vTasks \ {t} : ForwardedSame(t, x)]_vars

====
